---- MODULE Spec2Model ----
(***************************************************************************)
(* Strata capability authorization plane: the policy core                  *)
(* (internal/policy), the capability claims (internal/capability), the     *)
(* token codec (internal/auth), and the identity and fs services (cmd/).   *)
(*                                                                         *)
(* Go strings that the code splits, scans or parses (method names, paths,  *)
(* rate strings) are sequences of one-character strings, so that           *)
(* strings.SplitN, strings.Contains, strings.HasPrefix, filepath.Abs and   *)
(* strconv.ParseFloat are computed character by character.  Opaque         *)
(* strings (capability ids, handle ids, messages) are TLA+ strings.        *)
(***************************************************************************)
EXTENDS Integers, Sequences, FiniteSets, TLC

(***************************************************************************)
(* Bounds of the model.                                                    *)
(***************************************************************************)
\* The clock of the policy harness runs from 0 to MaxSeconds seconds.
MaxSeconds == 1

\* Resolution of the model clock: ticks per second (time.Duration.Seconds()).
TicksPerSec == 10

MaxNow == MaxSeconds * TicksPerSec

\* strconv.ParseFloat reads decimal digits; rates are kept in tenths.
RateDen == 10

\* One whole rate token, in the fixed-point unit of bucket.tokens
\* (1 / (RateDen * TicksPerSec) of a token).
OneToken == RateDen * TicksPerSec

(***************************************************************************)
(* String helpers (package strings).                                       *)
(***************************************************************************)
HasPrefix(s, p) ==
    /\ Len(p) <= Len(s)
    /\ SubSeq(s, 1, Len(p)) = p

HasSuffix(s, p) ==
    /\ Len(p) <= Len(s)
    /\ SubSeq(s, Len(s) - Len(p) + 1, Len(s)) = p

Contains(s, sub) ==
    \E i \in 1..(Len(s) - Len(sub) + 1) : SubSeq(s, i, i + Len(sub) - 1) = sub

TrimSuffix(s, p) ==
    IF HasSuffix(s, p) THEN SubSeq(s, 1, Len(s) - Len(p)) ELSE s

\* Index of the first occurrence of character c in s, 0 when there is none.
IndexByte(s, c) ==
    IF \E i \in 1..Len(s) : s[i] = c
    THEN CHOOSE i \in 1..Len(s) : s[i] = c /\ \A j \in 1..(i - 1) : s[j] # c
    ELSE 0

\* strings.SplitN(s, ".", 2): at most two parts, cut at the first ".".
SplitN2(s) ==
    LET i == IndexByte(s, ".") IN
    IF i = 0 THEN << s >>
    ELSE << SubSeq(s, 1, i - 1), SubSeq(s, i + 1, Len(s)) >>

IsSpace(c) == c \in {" ", "\t", "\n", "\r"}

RECURSIVE TrimLeft(_)
TrimLeft(s) ==
    IF s # << >> /\ IsSpace(Head(s)) THEN TrimLeft(Tail(s)) ELSE s

RECURSIVE TrimRight(_)
TrimRight(s) ==
    IF s # << >> /\ IsSpace(s[Len(s)])
    THEN TrimRight(SubSeq(s, 1, Len(s) - 1))
    ELSE s

TrimSpace(s) == TrimRight(TrimLeft(s))

(***************************************************************************)
(* Paths (package path/filepath, Unix).                                    *)
(***************************************************************************)
Separator == "/"

\* The elements of a path between separators (empty elements included).
RECURSIVE SplitPath(_)
SplitPath(p) ==
    IF p = << >> THEN << << >> >>
    ELSE LET rest == SplitPath(Tail(p)) IN
         IF Head(p) = Separator
         THEN << << >> >> \o rest
         ELSE << << Head(p) >> \o Head(rest) >> \o Tail(rest)

\* filepath.Clean on a rooted path: drops empty and "." elements, and lets
\* ".." remove the element before it (".." at the root is dropped).
RECURSIVE CleanElems(_, _)
CleanElems(elems, out) ==
    IF elems = << >> THEN out
    ELSE LET e == Head(elems) IN
         CleanElems(Tail(elems),
             IF e = << >> \/ e = << "." >> THEN out
             ELSE IF e = << ".", "." >>
                  THEN (IF out = << >> THEN out ELSE SubSeq(out, 1, Len(out) - 1))
                  ELSE Append(out, e))

RECURSIVE JoinRooted(_)
JoinRooted(elems) ==
    IF elems = << >> THEN << >>
    ELSE << Separator >> \o Head(elems) \o JoinRooted(Tail(elems))

Clean(p) ==
    LET elems == CleanElems(SplitPath(p), << >>) IN
    IF elems = << >> THEN << Separator >> ELSE JoinRooted(elems)

IsAbs(p) == p # << >> /\ Head(p) = Separator

\* filepath.Abs: Clean(path) when absolute, else Clean(Join(cwd, path)).
Abs(wd, p) ==
    IF IsAbs(p) THEN Clean(p) ELSE Clean(wd \o << Separator >> \o p)

(***************************************************************************)
(* Character-sequence literals used by the code and by the inputs.         *)
(***************************************************************************)
S_fs == << "f", "s" >>
S_net == << "n", "e", "t" >>
S_open == << "o", "p", "e", "n" >>
S_read == << "r", "e", "a", "d" >>
S_list == << "l", "i", "s", "t" >>
S_rps == << "r", "p", "s" >>
S_dotdot == << ".", "." >>
M_fs_open == S_fs \o << "." >> \o S_open
M_fs_read == S_fs \o << "." >> \o S_read
M_fs_revoke == << "f", "s", ".", "r", "e", "v", "o", "k", "e" >>
M_fs_write == << "f", "s", ".", "w", "r", "i", "t", "e" >>
M_fs_list == S_fs \o << "." >> \o S_list

(***************************************************************************)
(* Capability claims (internal/capability).                                *)
(***************************************************************************)
\* A nil *capability.Capability.
NilClaims == [isNil |-> TRUE]

\* capability.Constraints
Constraints(pathPrefix, rateLimit) ==
    [PathPrefix |-> pathPrefix, RateLimit |-> rateLimit]

\* capability.Capability
Capability(id, iat, exp, service, actions, rights, cons) ==
    [ID |-> id, Subject |-> "capability", IssuedAt |-> iat, ExpiresAt |-> exp,
     Service |-> service, Actions |-> actions, Rights |-> rights,
     Constraints |-> cons]

\* A variant that never finds a capability expired.
IsExpired_never(c, t) == FALSE

\* (*Capability).IsExpired at clock value t: time.Now().After(c.ExpiresAt).
IsExpired(c, t) == t > c.ExpiresAt

(***************************************************************************)
(* Policy errors (internal/policy/authorize.go).                           *)
(***************************************************************************)
CodeUnauthenticated == 2
CodePermissionDenied == 3
CodeResourceExhausted == 7

\* A nil error.
NoError == [Code |-> 0, Name |-> "", Message |-> ""]

PolicyError(code, name, msg) == [Code |-> code, Name |-> name, Message |-> msg]

(***************************************************************************)
(* Constraints (internal/policy/constraints.go).                           *)
(***************************************************************************)
\* A nil ctx map, and a ctx map holding "path".
NilCtx == [k \in {} |-> << >>]
PathCtx(p) == [k \in {"path"} |-> p]

\* path, _ := ctx["path"].(string)
CtxPath(ctx) == IF "path" \in DOMAIN ctx THEN ctx["path"] ELSE << >>

\* A variant without the separator after the prefix.
Contained_noSeparator(absPath, absPrefix) == HasPrefix(absPath, absPrefix)

\* The containment test of enforcePathPrefix on the resolved paths.
Contained(absPath, absPrefix) ==
    \/ absPath = absPrefix
    \/ HasPrefix(absPath, absPrefix \o << Separator >>)

\* A variant that resolves the path without rejecting ".." first.
enforcePathPrefix_noTraversalCheck(prefix, ctx, wd) ==
    LET path == CtxPath(ctx) IN
    IF prefix = << >> THEN NoError
    ELSE IF path = << >> THEN NoError
    ELSE IF ~Contained(Abs(wd, path), Abs(wd, prefix))
         THEN PolicyError(CodePermissionDenied, "PERMISSION_DENIED",
                          "path outside allowed prefix")
    ELSE NoError

enforcePathPrefix(prefix, ctx, wd) ==
    LET path == CtxPath(ctx) IN
    IF prefix = << >> THEN NoError
    ELSE IF path = << >> THEN NoError
    ELSE IF Contains(path, S_dotdot)
         THEN PolicyError(CodePermissionDenied, "PERMISSION_DENIED",
                          "path traversal not allowed")
    ELSE IF ~Contained(Abs(wd, path), Abs(wd, prefix))
         THEN PolicyError(CodePermissionDenied, "PERMISSION_DENIED",
                          "path outside allowed prefix")
    ELSE NoError

Digits == << "0", "1", "2", "3", "4", "5", "6", "7", "8", "9" >>
IsDigit(c) == \E i \in 1..10 : Digits[i] = c
DigitVal(c) == (CHOOSE i \in 1..10 : Digits[i] = c) - 1

RECURSIVE DecimalValue(_)
DecimalValue(ds) ==
    IF ds = << >> THEN 0
    ELSE DecimalValue(SubSeq(ds, 1, Len(ds) - 1)) * 10 + DigitVal(ds[Len(ds)])

\* The float64 value NaN, kept apart from every number of the model.  Every
\* comparison with it is false and every sum or product with it is NaN.
NaN == -1073741824

FAdd(x, y) == IF x = NaN \/ y = NaN THEN NaN ELSE x + y
FMul(x, y) == IF x = NaN \/ y = NaN THEN NaN ELSE x * y
FLess(x, y) == x # NaN /\ y # NaN /\ x < y
FLeq(x, y) == x # NaN /\ y # NaN /\ x <= y

\* strconv's special(): "nan" in any mix of cases, without a sign.
IsNaNText(s) ==
    /\ Len(s) = 3
    /\ s[1] \in {"n", "N"}
    /\ s[2] \in {"a", "A"}
    /\ s[3] \in {"n", "N"}

\* strconv.ParseFloat(s, 64): "nan", or decimal notation with an optional
\* sign, digits, an optional point and digits.  The value is returned in
\* tenths (1/RateDen), which is exact for inputs with at most one fraction
\* digit; exponents, hexadecimal floats and infinities are not among the
\* inputs.
ParseFloat(s) ==
    LET signed == s # << >> /\ Head(s) \in {"+", "-"}
        neg == s # << >> /\ Head(s) = "-"
        body == IF signed THEN Tail(s) ELSE s
        dot == IndexByte(body, ".")
        ip == IF dot = 0 THEN body ELSE SubSeq(body, 1, dot - 1)
        fp == IF dot = 0 THEN << >> ELSE SubSeq(body, dot + 1, Len(body))
        wellFormed ==
            /\ Len(ip) + Len(fp) > 0
            /\ \A i \in 1..Len(ip) : IsDigit(ip[i])
            /\ \A i \in 1..Len(fp) : IsDigit(fp[i])
        mag == DecimalValue(ip) * RateDen
               + (IF fp = << >> THEN 0 ELSE DigitVal(fp[1]))
    IN  IF IsNaNText(s) THEN [ok |-> TRUE, n |-> NaN]
        ELSE IF wellFormed
        THEN [ok |-> TRUE, n |-> IF neg THEN 0 - mag ELSE mag]
        ELSE [ok |-> FALSE, n |-> 0]

\* parseRate parses "50rps" into 50.0 tokens per second (here: in tenths).
parseRate(str) ==
    LET s == TrimSpace(str)
        f == ParseFloat(TrimSuffix(s, S_rps))
    IN  IF ~HasSuffix(s, S_rps) THEN [ok |-> FALSE, rate |-> 0]
        ELSE IF ~f.ok \/ FLeq(f.n, 0) THEN [ok |-> FALSE, rate |-> 0]
        ELSE [ok |-> TRUE, rate |-> f.n]

\* bucket: tokens in units of 1/OneToken, rate in tenths of a token per
\* second, last in clock ticks.
Bucket(tokens, rate, last) == [tokens |-> tokens, rate |-> rate, last |-> last]

\* A variant whose bucket starts empty.
NewBucket_empty(rate, t) == Bucket(0, rate, t)

\* &bucket{tokens: rate, rate: rate, last: time.Now()}
NewBucket(rate, t) == Bucket(FMul(rate, TicksPerSec), rate, t)

\* b.tokens += now.Sub(b.last).Seconds() * b.rate, capped at b.rate.
Refill(b, t) ==
    LET grown == FAdd(b.tokens, FMul(t - b.last, b.rate))
        cap == FMul(b.rate, TicksPerSec)
    IN  Bucket(IF FLess(cap, grown) THEN cap ELSE grown, b.rate, t)

\* A variant in which every capability shares the bucket stored.
PutBucket_shared(bks, capID, b) ==
    [k \in (DOMAIN bks) \cup {capID} |-> b]

\* The rate limiter's map with bucket b stored under capID.
PutBucket(bks, capID, b) ==
    [k \in (DOMAIN bks) \cup {capID} |-> IF k = capID THEN b ELSE bks[k]]

\* enforceRateLimit under globalLimiter.mu: the error and the map afterwards.
enforceRateLimit(capID, rateLimit, bks, t) ==
    LET pr == parseRate(rateLimit)
        b0 == IF capID \in DOMAIN bks THEN bks[capID] ELSE NewBucket(pr.rate, t)
        b1 == Refill(b0, t)
    IN  IF rateLimit = << >> THEN [err |-> NoError, buckets |-> bks]
        ELSE IF ~pr.ok THEN [err |-> NoError, buckets |-> bks]
        ELSE IF FLess(b1.tokens, OneToken)
             THEN [err |-> PolicyError(CodeResourceExhausted, "RESOURCE_EXHAUSTED",
                                       "rate limit exceeded"),
                   buckets |-> PutBucket(bks, capID, b1)]
        ELSE [err |-> NoError,
              buckets |-> PutBucket(bks, capID,
                              Bucket(FAdd(b1.tokens, 0 - OneToken), b1.rate, b1.last))]

\* A variant that takes the rate token before it looks at the path.
enforceConstraints_rateFirst(claims, ctx, bks, t, wd) ==
    LET rl == enforceRateLimit(claims.ID, claims.Constraints.RateLimit, bks, t)
        pe == enforcePathPrefix(claims.Constraints.PathPrefix, ctx, wd)
    IN  IF rl.err # NoError THEN rl
        ELSE IF pe # NoError THEN [err |-> pe, buckets |-> rl.buckets]
        ELSE rl

enforceConstraints(claims, ctx, bks, t, wd) ==
    LET pe == enforcePathPrefix(claims.Constraints.PathPrefix, ctx, wd) IN
    IF pe # NoError THEN [err |-> pe, buckets |-> bks]
    ELSE enforceRateLimit(claims.ID, claims.Constraints.RateLimit, bks, t)

(***************************************************************************)
(* Authorize (internal/policy/authorize.go).                               *)
(***************************************************************************)
\* A variant that accepts any right.
hasRight_any(rights, required) == rights # << >>

hasRight(rights, required) == \E i \in 1..Len(rights) : rights[i] = required

hasAction(actions, required) == \E i \in 1..Len(actions) : actions[i] = required

\* A variant that looks at the rights before the service.
AuthorizeClaims_rightsFirst(claims, method, ctx, bks, t, wd) ==
    LET parts == SplitN2(method) IN
    IF Len(parts) # 2
    THEN [err |-> PolicyError(CodePermissionDenied, "PERMISSION_DENIED",
                              "invalid method format"),
          buckets |-> bks]
    ELSE IF ~hasRight(claims.Rights, method) /\ ~hasAction(claims.Actions, parts[2])
    THEN [err |-> PolicyError(CodePermissionDenied, "PERMISSION_DENIED",
                              "method not permitted"),
          buckets |-> bks]
    ELSE IF claims.Service # parts[1]
    THEN [err |-> PolicyError(CodePermissionDenied, "PERMISSION_DENIED",
                              "token not valid for service"),
          buckets |-> bks]
    ELSE enforceConstraints(claims, ctx, bks, t, wd)

\* Authorize from the method parse on, for claims that are not nil.
AuthorizeClaims(claims, method, ctx, bks, t, wd) ==
    LET parts == SplitN2(method) IN
    IF Len(parts) # 2
    THEN [err |-> PolicyError(CodePermissionDenied, "PERMISSION_DENIED",
                              "invalid method format"),
          buckets |-> bks]
    ELSE IF claims.Service # parts[1]
    THEN [err |-> PolicyError(CodePermissionDenied, "PERMISSION_DENIED",
                              "token not valid for service"),
          buckets |-> bks]
    ELSE IF ~hasRight(claims.Rights, method) /\ ~hasAction(claims.Actions, parts[2])
    THEN [err |-> PolicyError(CodePermissionDenied, "PERMISSION_DENIED",
                              "method not permitted"),
          buckets |-> bks]
    ELSE enforceConstraints(claims, ctx, bks, t, wd)

\* A variant that parses the method before it looks at the claims.
Authorize_methodFirst(claims, method, ctx, bks, t, wd) ==
    IF Len(SplitN2(method)) # 2
    THEN [err |-> PolicyError(CodePermissionDenied, "PERMISSION_DENIED",
                              "invalid method format"),
          buckets |-> bks]
    ELSE IF claims = NilClaims
    THEN [err |-> PolicyError(CodeUnauthenticated, "UNAUTHENTICATED", "token required"),
          buckets |-> bks]
    ELSE AuthorizeClaims(claims, method, ctx, bks, t, wd)

\* Authorize(claims, method, ctx) with the rate limiter's map bks, the clock
\* t and the working directory wd: the error and the map afterwards.
Authorize(claims, method, ctx, bks, t, wd) ==
    IF claims = NilClaims
    THEN [err |-> PolicyError(CodeUnauthenticated, "UNAUTHENTICATED", "token required"),
          buckets |-> bks]
    ELSE AuthorizeClaims(claims, method, ctx, bks, t, wd)

(***************************************************************************)
(* State.                                                                  *)
(***************************************************************************)
VARIABLES
    now,        \* the wall clock (time.Now()), in ticks
    cwd,        \* the working directory of the process that runs the policy core
    buckets,    \* globalLimiter.buckets: capability id -> bucket
    pin,        \* policy harness: the (claims, method, ctx) handed to Authorize
    pres,       \* policy harness: what the last Authorize call on pin returned
    burst,      \* observer: per capability id, the number of calls that reached
                \* the rate-limit step since the bucket was created, 0 once
                \* time has elapsed since then
    issued,     \* the tokens identity has issued: capability id -> token
    revocations,\* identity: the RevocationList; identity.revoke has returned
                \* for each of its ids
    handles,    \* fs: handleTable.handles, handle id -> entry
    revoked,    \* fs: handleTable.revoked
    nextID,     \* fs: handleTable.nextID
    conn,       \* fs: per client connection, the request being handled
    nreq        \* number of client requests fs has read so far

limVars == << now, cwd, buckets >>
polVars == << pin, pres, burst >>
svcVars == << issued, revocations, handles, revoked, nextID,
              conn, nreq >>
vars == << now, cwd, buckets, pin, pres, burst, issued, revocations,
           handles, revoked, nextID, conn, nreq >>
svcVarsButConn == << issued, revocations, handles, revoked, nextID, nreq >>

\* The services before anything was issued, revoked or requested.
Conns == {"a"}

IdleConn == [pc |-> "idle"]

NoFunction == [k \in {} |-> 0]

SvcIdle ==
    /\ issued = NoFunction
    /\ revocations = {}
    /\ handles = NoFunction
    /\ revoked = {}
    /\ nextID = 0
    /\ conn = [c \in Conns |-> IdleConn]
    /\ nreq = 0

(***************************************************************************)
(* Inputs of the policy harness.                                           *)
(***************************************************************************)
\* The observer stops counting consecutive calls here.
BurstCap == 5

P_tmp == << "/", "t", "m", "p" >>
P_root == << "/" >>
P_var == << "/", "v", "a", "r" >>

\* "<n>rps" for a one-digit n.
RpsString(n) == << Digits[n + 1] >> \o S_rps

PolicyIds == {"c1"}

PolicyServices == {S_fs, S_net}

PolicyPerms ==
    { [Rights |-> << M_fs_open, M_fs_read >>, Actions |-> << >>],
      [Rights |-> << >>, Actions |-> << S_open >>],
      [Rights |-> << >>, Actions |-> << >>] }

PolicyPrefixes ==
    { << >>, P_tmp, P_tmp \o << "/" >>, << "t", "m", "p" >> }

PolicyRates ==
    { << >>, RpsString(1), RpsString(2), RpsString(3),
      << "a", "b", "c" >> }

PolicyClaims ==
    { Capability(id, 0, MaxNow, svc, pm.Actions, pm.Rights, Constraints(pfx, rl)) :
        id \in PolicyIds, svc \in PolicyServices, pm \in PolicyPerms,
        pfx \in PolicyPrefixes, rl \in PolicyRates }
    \cup {NilClaims}

PolicyMethods ==
    { M_fs_open, M_fs_read, S_fs \o S_open, S_net \o << "." >> \o S_open,
      M_fs_open \o << ".", "x" >> }

PolicyPaths ==
    { P_tmp, P_tmp \o << "/", "x" >>, P_tmp \o << "/", "a", "/", "b" >>,
      P_tmp \o << "e", "v", "i", "l" >>,
      P_tmp \o << "e", "v", "i", "l", "/", "x" >>, P_var,
      P_tmp \o << "/", ".", ".", "/", "e", "t", "c" >>,
      P_tmp \o << "/", "a", "/", ".", ".", "/", "b" >>,
      P_tmp \o << "/", "a", ".", ".", "b" >>,
      P_tmp \o << "/", "/", "x" >>, << "x" >> }

PolicyCtxs == {NilCtx} \cup { PathCtx(p) : p \in PolicyPaths }

Cwds == {P_root, P_tmp}

\* The clock advances by these amounts.
Advances == {TicksPerSec \div 2, TicksPerSec}

\* The rate limiter's map at the start: empty, or holding the bucket that a
\* first call under another capability "c0" with "1rps" leaves behind.
NoBuckets == NoFunction
StartBuckets ==
    { NoBuckets,
      enforceRateLimit("c0", RpsString(1), NoBuckets, 0).buckets }

NoResult == [called |-> FALSE]

\* Whether a call with this outcome went through the rate-limit step with a
\* bucket (it was answered nil or RESOURCE_EXHAUSTED and a bucket is there).
ReachedBucket(r, id) ==
    /\ r.err.Code \in {0, CodeResourceExhausted}
    /\ id \in DOMAIN r.buckets

\* The observer's count after a call r for id made with the map bks.
CountCall(r, id, bks) ==
    [k \in DOMAIN burst |->
        IF k = id /\ ReachedBucket(r, id)
        THEN IF id \notin DOMAIN bks THEN 1
             ELSE IF burst[k] = 0 THEN 0
             ELSE IF burst[k] < BurstCap THEN burst[k] + 1 ELSE BurstCap
        ELSE burst[k]]

(***************************************************************************)
(* The policy harness: Authorize applied to inputs drawn at the start.     *)
(***************************************************************************)
PolicyInit ==
    /\ now = 0
    /\ cwd \in Cwds
    /\ buckets \in StartBuckets
    /\ pin \in [claims : PolicyClaims, method : PolicyMethods, ctx : PolicyCtxs]
    /\ pres = NoResult
    /\ burst = [k \in PolicyIds |-> 0]
    /\ SvcIdle

\* One call Authorize(pin.claims, pin.method, pin.ctx).
PCall ==
    LET r == Authorize(pin.claims, pin.method, pin.ctx, buckets, now, cwd) IN
    /\ buckets' = r.buckets
    /\ pres' = [called |-> TRUE, err |-> r.err, before |-> buckets,
                k |-> IF pin.claims = NilClaims THEN 0
                      ELSE CountCall(r, pin.claims.ID, buckets)[pin.claims.ID]]
    /\ burst' = IF pin.claims = NilClaims THEN burst
                ELSE CountCall(r, pin.claims.ID, buckets)
    /\ UNCHANGED << now, cwd, pin, svcVars >>

\* Time passes.
Tick ==
    /\ \E d \in Advances :
          /\ now + d <= MaxNow
          /\ now' = now + d
    /\ burst' = [k \in DOMAIN burst |-> 0]
    /\ UNCHANGED << cwd, buckets, pin, pres, svcVars >>

PolicyNext == PCall \/ Tick

PolicySpec == PolicyInit /\ [][PolicyNext]_vars

(***************************************************************************)
(* Properties of the policy core, checked under PolicySpec.                *)
(***************************************************************************)
\* The path handed to Authorize, empty when ctx holds none.
PinPath == IF "path" \in DOMAIN pin.ctx THEN pin.ctx["path"] ELSE << >>

\* Position of the first "." of the method handed to Authorize.
IsFirstDot(i) ==
    /\ i \in 1..Len(pin.method)
    /\ pin.method[i] = "."
    /\ \A j \in 1..(i - 1) : pin.method[j] # "."

\* C6: Authorize returns Ok only if claims.service is the part of the method
\* before its first "." and the whole method is one of claims.rights or the
\* part after the first "." is one of claims.actions.
AuthorizeOkImpliesServiceAndRight ==
    (pres.called /\ pres.err = NoError) =>
        /\ pin.claims # NilClaims
        /\ \E i \in 1..Len(pin.method) :
              /\ IsFirstDot(i)
              /\ pin.claims.Service = SubSeq(pin.method, 1, i - 1)
              /\ \/ \E j \in 1..Len(pin.claims.Rights) :
                       pin.claims.Rights[j] = pin.method
                 \/ \E j \in 1..Len(pin.claims.Actions) :
                       pin.claims.Actions[j] = SubSeq(pin.method, i + 1, Len(pin.method))

\* C6 witness: a call admitted through the legacy action list alone.
AuthorizeOkByActionReached ==
    /\ pres.called
    /\ pres.err = NoError
    /\ pin.claims.Rights = << >>
    /\ pin.method = M_fs_open

\* C7: Authorize with nil claims returns Unauthenticated (2) for every method
\* and context and leaves the rate limiter's map as it was.
NilClaimsUnauthenticated ==
    (pres.called /\ pin.claims = NilClaims) =>
        /\ pres.err.Code = 2
        /\ pres.err.Name = "UNAUTHENTICATED"
        /\ buckets = pres.before

\* C7 witness: a nil-claims call with a method that has no "." while the
\* rate limiter holds a bucket.
NilClaimsMalformedMethodReached ==
    /\ pres.called
    /\ pin.claims = NilClaims
    /\ \A i \in 1..Len(pin.method) : pin.method[i] # "."
    /\ pres.before # NoBuckets

\* a starts with b followed by the path separator.
UnderDir(a, b) ==
    /\ Len(a) > Len(b)
    /\ \A i \in 1..Len(b) : a[i] = b[i]
    /\ a[Len(b) + 1] = "/"

AdmittedUnderTmp ==
    { P_tmp, P_tmp \o << "/", "x" >>, P_tmp \o << "/", "a", "/", "b" >> }

DeniedUnderTmp ==
    { P_tmp \o << "e", "v", "i", "l" >>,
      P_tmp \o << "e", "v", "i", "l", "/", "x" >>, P_var }

TraversalRejected ==
    (/\ pres.called
     /\ pin.claims # NilClaims
     /\ pin.claims.Constraints.PathPrefix # << >>
     /\ \E i \in 1..(Len(PinPath) - 1) : PinPath[i] = "." /\ PinPath[i + 1] = ".")
    => pres.err.Code = 3

\* C9 witness: /tmp/a/../b, which resolves to /tmp/b, was refused as a
\* traversal under prefix /tmp.
TraversalInsidePrefixReached ==
    /\ pres.called
    /\ pin.claims # NilClaims
    /\ pin.claims.Constraints.PathPrefix = P_tmp
    /\ PinPath = P_tmp \o << "/", "a", "/", ".", ".", "/", "b" >>
    /\ Abs(cwd, PinPath) = P_tmp \o << "/", "b" >>
    /\ pres.err.Message = "path traversal not allowed"

\* C10: under rate_limit "Nrps", with no time elapsing, the first N calls
\* that reach the rate-limit step succeed and call N+1 is answered
\* ResourceExhausted (7).  pres.k numbers the calls since the bucket was
\* created, and is 0 once time has elapsed.
RateLimitBurst ==
    \A n \in 1..3 :
        (/\ pres.called
         /\ pin.claims # NilClaims
         /\ pin.claims.Constraints.RateLimit = RpsString(n)
         /\ pres.err.Code \in {0, 7})
        => /\ pin.claims.ID \in DOMAIN buckets
           /\ (pin.claims.ID \notin DOMAIN pres.before) => pres.k = 1
           /\ (pres.k > 0 /\ pres.k <= n) => pres.err = NoError
           /\ pres.k = n + 1 => pres.err.Code = 7

\* C10 witness: the third call in a row under "2rps" was answered
\* ResourceExhausted after two that succeeded.
RateLimitBurstReached ==
    /\ pres.called
    /\ pin.claims # NilClaims
    /\ pin.claims.Constraints.RateLimit = RpsString(2)
    /\ pres.k = 3
    /\ pres.err.Code = 7
    /\ pres.err.Name = "RESOURCE_EXHAUSTED"

(***************************************************************************)
(* Token codec (internal/auth).  A token string is its header followed by  *)
(* the base64url encoding of message || signature; the message is the JSON *)
(* encoding of the claims.  A time.Time is carried as the instant it       *)
(* names, which is what its JSON form keeps.                               *)
(***************************************************************************)
v2PublicHeader == "v2.public."

\* The key pair identity generates at startup, and a key pair of someone else.
IdentityKey == "identity-key"
AttackerKey == "attacker-key"

PublicHalf(k) == [pub |-> k]
PrivateHalf(k) == [priv |-> k]

\* pae: the number of pieces and the pieces, each with its own boundary.
pae(pieces) == [count |-> Len(pieces), pieces |-> pieces]

ed25519Sign(priv, m) == [signer |-> priv.priv, msg |-> m]
ed25519Verify(pub, m, sig) == sig = [signer |-> pub.pub, msg |-> m]

\* A byte that is not part of any valid UTF-8 sequence, and U+FFFD, which
\* encoding/json writes in its place.
InvalidByte == "0xFF"
ReplacementChar == "U+FFFD"

\* A Go string as a JSON string and back.
ToValidUTF8(str) ==
    [i \in 1..Len(str) |-> IF str[i] = InvalidByte THEN ReplacementChar ELSE str[i]]

ToValidUTF8Each(strs) == [i \in 1..Len(strs) |-> ToValidUTF8(strs[i])]

\* json.Marshal of capability.Constraints: both fields are omitempty.
MarshalConstraints(cons) ==
    [k \in (IF cons.PathPrefix # << >> THEN {"path_prefix"} ELSE {})
           \cup (IF cons.RateLimit # << >> THEN {"rate_limit"} ELSE {}) |->
        IF k = "path_prefix" THEN ToValidUTF8(cons.PathPrefix)
        ELSE ToValidUTF8(cons.RateLimit)]

\* A variant that never writes rights.
Marshal_noRights(cap) ==
    [k \in {"jti", "sub", "iat", "exp", "service", "actions", "constraints"} |->
        CASE k = "jti" -> cap.ID
          [] k = "sub" -> cap.Subject
          [] k = "iat" -> cap.IssuedAt
          [] k = "exp" -> cap.ExpiresAt
          [] k = "service" -> ToValidUTF8(cap.Service)
          [] k = "actions" -> ToValidUTF8Each(cap.Actions)
          [] k = "constraints" -> MarshalConstraints(cap.Constraints)]

\* json.Marshal of capability.Capability: rights is omitempty.
Marshal(cap) ==
    [k \in {"jti", "sub", "iat", "exp", "service", "actions", "constraints"}
           \cup (IF cap.Rights # << >> THEN {"rights"} ELSE {}) |->
        CASE k = "jti" -> cap.ID
          [] k = "sub" -> cap.Subject
          [] k = "iat" -> cap.IssuedAt
          [] k = "exp" -> cap.ExpiresAt
          [] k = "service" -> ToValidUTF8(cap.Service)
          [] k = "actions" -> ToValidUTF8Each(cap.Actions)
          [] k = "rights" -> ToValidUTF8Each(cap.Rights)
          [] k = "constraints" -> MarshalConstraints(cap.Constraints)]

\* Bytes that are not a JSON document.
NotJSON == [raw |-> "not json"]

JSONField(obj, k) == IF k \in DOMAIN obj THEN obj[k] ELSE << >>

\* json.Unmarshal into capability.Capability: an absent field keeps its
\* zero value.
Unmarshal(message) ==
    IF "raw" \in DOMAIN message
    THEN [ok |-> FALSE, cap |-> NilClaims,
          err |-> "invalid character 'n' looking for beginning of value"]
    ELSE [ok |-> TRUE,
          cap |-> [ID |-> message["jti"], Subject |-> message["sub"],
                   IssuedAt |-> message["iat"], ExpiresAt |-> message["exp"],
                   Service |-> message["service"], Actions |-> message["actions"],
                   Rights |-> JSONField(message, "rights"),
                   Constraints |->
                       Constraints(JSONField(message["constraints"], "path_prefix"),
                                   JSONField(message["constraints"], "rate_limit"))],
          err |-> ""]

\* Fewer than ed25519.SignatureSize bytes.
Short == [short |-> TRUE]

\* Decoded token bytes: the message and the last SignatureSize bytes.
Body(message, sig) == [message |-> message, tail |-> sig]

\* ed25519.SignatureSize, and the length of the id NewCapability draws (16
\* bytes in hex).
SignatureSize == 64
IdLen == 32

\* The number of bytes json.Marshal writes for a string: the quotes, one
\* byte for a character and six for a replaced one, written as an escape.
RECURSIVE CharsLen(_)
CharsLen(str) ==
    IF str = << >> THEN 0
    ELSE (IF Head(str) = ReplacementChar THEN 6 ELSE 1) + CharsLen(Tail(str))

StringLen(str) == 2 + CharsLen(str)

\* ... for a []string: null when it is empty, [ ... ] with commas otherwise.
RECURSIVE StringsLen(_)
StringsLen(strs) ==
    IF strs = << >> THEN 0 ELSE StringLen(Head(strs)) + 1 + StringsLen(Tail(strs))

ArrayLen(strs) == IF strs = << >> THEN 4 ELSE 1 + StringsLen(strs)

\* ... for a time.Time in UTC (RFC 3339 with the fraction's trailing zeros
\* dropped): 2006-01-02T15:04:05Z, or ...:05.1Z.
TimeLen(t) == IF t % TicksPerSec = 0 THEN 22 ELSE 24

\* ... for "key":value and a comma or the closing brace.
FieldLen(key, valueLen) == StringLen(key) + 1 + valueLen + 1

ConstraintsLen(obj) ==
    IF DOMAIN obj = {} THEN 2
    ELSE 1 + (IF "path_prefix" \in DOMAIN obj
              THEN FieldLen(<< "p", "a", "t", "h", "_", "p", "r", "e", "f", "i", "x" >>,
                            StringLen(obj["path_prefix"]))
              ELSE 0)
           + (IF "rate_limit" \in DOMAIN obj
              THEN FieldLen(<< "r", "a", "t", "e", "_", "l", "i", "m", "i", "t" >>,
                            StringLen(obj["rate_limit"]))
              ELSE 0)

\* The number of bytes of a message.
MessageLen(message) ==
    IF "raw" \in DOMAIN message THEN 8
    ELSE 1 + FieldLen(<< "j", "t", "i" >>, 2 + IdLen)
           + FieldLen(<< "s", "u", "b" >>, 12)
           + FieldLen(<< "i", "a", "t" >>, TimeLen(message["iat"]))
           + FieldLen(<< "e", "x", "p" >>, TimeLen(message["exp"]))
           + FieldLen(<< "s", "e", "r", "v", "i", "c", "e" >>, StringLen(message["service"]))
           + FieldLen(<< "a", "c", "t", "i", "o", "n", "s" >>, ArrayLen(message["actions"]))
           + (IF "rights" \in DOMAIN message
              THEN FieldLen(<< "r", "i", "g", "h", "t", "s" >>, ArrayLen(message["rights"]))
              ELSE 0)
           + FieldLen(<< "c", "o", "n", "s", "t", "r", "a", "i", "n", "t", "s" >>,
                      ConstraintsLen(message["constraints"]))

ByteLen(bytes) ==
    IF bytes = Short THEN 0 ELSE MessageLen(bytes.message) + SignatureSize

\* The bits of the last base64 character that encode nothing: none when the
\* bytes fill whole groups of three, four after one byte over, two after two.
SpareBits(bytes) ==
    IF ByteLen(bytes) % 3 = 1 THEN 4
    ELSE IF ByteLen(bytes) % 3 = 2 THEN 2
    ELSE 0

\* base64.RawURLEncoding: the encoder writes zero spare bits; the decoder,
\* which is not Strict, does not look at them.
EncodeToString(bytes) == [b64 |-> bytes, spare |-> 0]
DecodeString(str) ==
    IF "b64" \in DOMAIN str THEN [ok |-> TRUE, bytes |-> str.b64, err |-> ""]
    ELSE [ok |-> FALSE, bytes |-> Short,
          err |-> "illegal base64 data at input byte " \o str.illegal]

\* A request without auth, or with an empty token string.
NoToken == [none |-> TRUE]

Sign(cap, key) ==
    [hdr |-> v2PublicHeader,
     payload |-> EncodeToString(
         Body(Marshal(cap),
              ed25519Sign(key, pae(<< v2PublicHeader, Marshal(cap), "" >>))))]

VerifyError(msg) == [ok |-> FALSE, cap |-> NilClaims, err |-> msg]

\* Verify after the token was decoded to message || sig.
VerifyMessage(message, sig, key, um) ==
    IF ~ed25519Verify(key, pae(<< v2PublicHeader, message, "" >>), sig)
    THEN VerifyError("invalid signature")
    ELSE IF ~um.ok THEN VerifyError("unmarshal capability: " \o um.err)
    ELSE [ok |-> TRUE, cap |-> um.cap, err |-> ""]

\* The same without the signature check.
VerifyMessage_noSignatureCheck(message, sig, key, um) ==
    IF ~um.ok THEN VerifyError("unmarshal capability: " \o um.err)
    ELSE [ok |-> TRUE, cap |-> um.cap, err |-> ""]

\* Verify after the payload was base64-decoded to d.
VerifyDecoded(d, key) ==
    IF ~d.ok THEN VerifyError("decode token: " \o d.err)
    ELSE IF d.bytes = Short THEN VerifyError("token too short")
    ELSE VerifyMessage(d.bytes.message, d.bytes.tail, key, Unmarshal(d.bytes.message))

VerifyDecoded_noSignatureCheck(d, key) ==
    IF ~d.ok THEN VerifyError("decode token: " \o d.err)
    ELSE IF d.bytes = Short THEN VerifyError("token too short")
    ELSE VerifyMessage_noSignatureCheck(d.bytes.message, d.bytes.tail, key,
                                        Unmarshal(d.bytes.message))

\* A variant that accepts any signature.
Verify_noSignatureCheck(token, key) ==
    IF token.hdr # v2PublicHeader THEN VerifyError("invalid token header")
    ELSE VerifyDecoded_noSignatureCheck(DecodeString(token.payload), key)

Verify(token, key) ==
    IF token.hdr # v2PublicHeader THEN VerifyError("invalid token header")
    ELSE VerifyDecoded(DecodeString(token.payload), key)

\* The claims a token's message encodes, whoever signed it.
TokenClaims(token) ==
    IF token = NoToken THEN NilClaims
    ELSE Verify_noSignatureCheck(token, PublicHalf(IdentityKey)).cap

(***************************************************************************)
(* IPC envelopes (internal/ipc/types.go).                                  *)
(***************************************************************************)
ErrInvalidRequest == 1
ErrAuthRequired == 2
ErrPermDenied == 3
ErrNotFound == 4
ErrInternal == 5

\* An absent (nil, omitted) value.
NilValue == [nil |-> TRUE]

\* A variant that does not carry the request's id.
ErrorResponse_noReqID(reqID, code, msg) ==
    [V |-> 1, ReqID |-> << >>, OK |-> FALSE, Result |-> NilValue,
     Error |-> [Code |-> code, Message |-> msg]]

SuccessResponse(reqID, result) ==
    [V |-> 1, ReqID |-> reqID, OK |-> TRUE, Result |-> result, Error |-> NilValue]

ErrorResponse(reqID, code, msg) ==
    [V |-> 1, ReqID |-> reqID, OK |-> FALSE, Result |-> NilValue,
     Error |-> [Code |-> code, Message |-> msg]]

\* json.Marshal of an ipc.Error: the fields the struct has.
MarshalError(e) == [code |-> e.Code, message |-> e.Message]

\* json.Marshal of a Response as WriteFrame puts it on the wire: v, req_id
\* and ok always, result and error only when they are not nil (omitempty).
MarshalResponse(resp) ==
    [k \in {"v", "req_id", "ok"}
           \cup (IF resp.Result # NilValue THEN {"result"} ELSE {})
           \cup (IF resp.Error # NilValue THEN {"error"} ELSE {}) |->
        CASE k = "v" -> resp.V
          [] k = "req_id" -> ToValidUTF8(resp.ReqID)
          [] k = "ok" -> resp.OK
          [] k = "result" -> resp.Result
          [] k = "error" -> MarshalError(resp.Error)]

\* params[k].(string): the empty string when the parameter is missing.
ParamString(req, k) == IF k \in DOMAIN req.Params THEN req.Params[k] ELSE << >>

(***************************************************************************)
(* Identity service (cmd/identity).                                        *)
(***************************************************************************)
DefaultTTL == 3600

\* time.Second in nanoseconds.
Giga == 1000000000

\* A float64 number of seconds: giga * 10^9 + sec + tenths / 10.
Float(g, sec, tenths) == [giga |-> g, sec |-> sec, tenths |-> tenths]

\* ttlSec <= 0 fails.
IsPositive(x) == x.giga > 0 \/ x.sec > 0 \/ (x.sec = 0 /\ x.tenths > 0)

\* time.Duration(ttlSec), for ttlSec positive: the conversion to int64 drops
\* the fraction.
WholeSeconds(ttl) == [giga |-> ttl.giga, sec |-> ttl.sec]

\* 2^63 and 2^64 nanoseconds, as giga * 10^18 + sec * 10^9 + nano.
TwoTo63 == [giga |-> 9, sec |-> 223372036, nano |-> 854775808]
TwoTo64 == [giga |-> 18, sec |-> 446744073, nano |-> 709551616]

NanosPerTick == Giga \div TicksPerSec

\* d * time.Second for a whole number d of seconds below 2^64 + 2^63
\* nanoseconds: an int64 product, taken modulo 2^64 into [-2^63, 2^63), in
\* ticks of the clock.
TimesSecond(d) ==
    IF d.giga < TwoTo63.giga \/ (d.giga = TwoTo63.giga /\ d.sec <= TwoTo63.sec)
    THEN (d.giga * Giga + d.sec) * TicksPerSec
    ELSE ((d.giga - TwoTo64.giga) * Giga + (d.sec - TwoTo64.sec)) * TicksPerSec
         + ((0 - TwoTo64.nano) \div NanosPerTick)

\* Time.Unix: whole seconds.
Unix(t) == t \div TicksPerSec

\* capability.NewCapability at clock value t, with the id drawn for it.
NewCapability(id, service, actions, cons, ttl, t) ==
    Capability(id, t, t + ttl, service, actions, << >>, cons)

\* A variant of the handler that validates nothing.
IssueHandler_noValidation(params, id, t) ==
    [resp |-> SuccessResponse("issue",
                  [token |-> Sign(Capability(id, t, t, params.service, params.actions,
                                             params.rights, Constraints(<< >>, << >>)),
                                  PrivateHalf(IdentityKey)),
                   cap_id |-> id, expires |-> Unix(t)]),
     token |-> Sign(Capability(id, t, t, params.service, params.actions,
                               params.rights, Constraints(<< >>, << >>)),
                    PrivateHalf(IdentityKey))]

\* The identity.issue handler: the response, and the token when one is made.
IssueHandler(params, id, t) ==
    LET ttlSec == IF ~IsPositive(params.ttl_seconds) THEN Float(0, DefaultTTL, 0)
                  ELSE params.ttl_seconds
        cap0 == NewCapability(id, params.service, params.actions,
                    Constraints(params.path_prefix, params.rate_limit),
                    TimesSecond(WholeSeconds(ttlSec)), t)
        cap == [cap0 EXCEPT !.Rights = params.rights]
        token == Sign(cap, PrivateHalf(IdentityKey))
    IN  IF params.service = << >>
        THEN [resp |-> ErrorResponse("issue", ErrInvalidRequest, "missing service param"),
              token |-> NoToken]
        ELSE IF Len(params.actions) = 0 /\ Len(params.rights) = 0
        THEN [resp |-> ErrorResponse("issue", ErrInvalidRequest, "actions or rights required"),
              token |-> NoToken]
        ELSE [resp |-> SuccessResponse("issue",
                          [token |-> token, cap_id |-> cap.ID, expires |-> Unix(cap.ExpiresAt)]),
              token |-> token]

\* The ids identity draws, in the order it draws them.
CapIdSeq == << "c1", "c2" >>
CapIds == { CapIdSeq[i] : i \in 1..Len(CapIdSeq) }

IssueParams ==
    { [service |-> S_fs, actions |-> << >>,
       rights |-> << M_fs_open, M_fs_read, M_fs_list >>,
       path_prefix |-> P_tmp, rate_limit |-> << >>, ttl_seconds |-> Float(0, 0, 0)],
      [service |-> S_fs, actions |-> << S_open, S_read >>, rights |-> << >>,
       path_prefix |-> << >>, rate_limit |-> RpsString(1),
       ttl_seconds |-> Float(0, 1, 0)],
      [service |-> S_net, actions |-> << >>, rights |-> << M_fs_read >>,
       path_prefix |-> << >>, rate_limit |-> << >>, ttl_seconds |-> Float(0, 0, 0)],
      [service |-> << >>, actions |-> << S_open >>, rights |-> << >>,
       path_prefix |-> << >>, rate_limit |-> << >>, ttl_seconds |-> Float(0, 0, 0)] }

\* identity.issue; clients obtain their tokens before they call fs.
Issue ==
    /\ nreq = 0
    /\ now = 0
    /\ Cardinality(DOMAIN issued) < Len(CapIdSeq)
    /\ \E params \in IssueParams :
          LET id == CapIdSeq[Cardinality(DOMAIN issued) + 1]
              r == IssueHandler(params, id, now)
          IN  /\ r.resp.OK
              /\ issued' = [k \in (DOMAIN issued) \cup {id} |->
                               IF k = id THEN r.token ELSE issued[k]]
    /\ UNCHANGED << limVars, polVars, revocations, handles,
                    revoked, nextID, conn, nreq >>

(***************************************************************************)
(* fs service (cmd/fs/main.go): the handle table.                          *)
(***************************************************************************)
RECURSIVE FormatInt(_)
FormatInt(n) ==
    IF n < 10 THEN << Digits[n + 1] >>
    ELSE FormatInt(n \div 10) \o << Digits[(n % 10) + 1] >>

\* fmt.Sprintf("h%d", n)
HandleId(n) == << "h" >> \o FormatInt(n)

\* (createdAt is written by handleTable.Open and read nowhere: left out.)
handleEntry(file, capID, path) ==
    [file |-> file, capID |-> capID, path |-> path]

\* A variant that never finds an id.
IsRevoked_never(set, capID) == FALSE

\* handleTable.IsRevoked
IsRevoked(set, capID) == capID \in set

\* A variant that removes an id that is already in the set.
Revoke_toggle(set, capID) ==
    IF capID \in set THEN set \ {capID} ELSE set \cup {capID}

\* handleTable.Revoke, and RevocationList.Revoke
Revoke(set, capID) == set \cup {capID}

\* The host file system: what os.Open, os.ReadDir and ReadAt find.
HostFiles == { P_tmp \o << "/", "x" >>,
               << "/", "e", "t", "c", "/", "p", "w" >> }
HostDirs == { P_root, P_tmp, << "/", "e", "t", "c" >> }

FileKind(absPath) ==
    IF absPath \in HostFiles THEN "file"
    ELSE IF absPath \in HostDirs THEN "dir"
    ELSE "none"

\* The public key fs loaded at startup.
pubKey == PublicHalf(IdentityKey)

\* extractClaims at clock value t.
extractClaims(req, key, t) ==
    IF req.Token = NoToken THEN [claims |-> NilClaims, resp |-> NilValue]
    ELSE LET v == Verify(req.Token, key) IN
         IF ~v.ok
         THEN [claims |-> NilClaims,
               resp |-> ErrorResponse(req.ReqID, ErrAuthRequired,
                                      "invalid token: " \o v.err)]
         ELSE IF IsExpired(v.cap, t)
         THEN [claims |-> NilClaims,
               resp |-> ErrorResponse(req.ReqID, ErrAuthRequired, "token expired")]
         ELSE [claims |-> v.cap, resp |-> NilValue]

policyError(reqID, err) == ErrorResponse(reqID, err.Code, err.Message)

(***************************************************************************)
(* fs service: requests and handlers.  A handler runs in three steps: up to *)
(* the revocation check, the revocation check, the file operation.  The    *)
(* revocation set can change between any two of them.                      *)
(***************************************************************************)
\* Client requests are bounded in number.
MaxRequests == 2

\* Capabilities revoked are bounded in number.
MaxRevoked == 1

\* The clock of the services runs from 0 to MaxSvcSeconds seconds.
MaxSvcSeconds == 2

\* The client numbers its requests as it likes; here by method.
ReqIdFor(method) == IF method = M_fs_list THEN << "r", "2" >> ELSE << "r", "1" >>

Request(method, token, params) ==
    [V |-> 1, ReqID |-> ReqIdFor(method), Method |-> method, Token |-> token,
     Params |-> params]

\* Requests handleConn answers itself: another protocol version, and a
\* method no handler is registered for (here without a req_id).
OtherVersion == [Request(M_fs_list, NoToken, [k \in {"path"} |-> P_tmp]) EXCEPT !.V = 2]
UnknownMethod == [Request(M_fs_write, NoToken, [k \in {} |-> << >>]) EXCEPT !.ReqID = << >>]

\* A token whose claims were changed after signing, and a token signed by
\* another key.
Tamper(token) ==
    [token EXCEPT !.payload.b64.message =
        Marshal([TokenClaims(token) EXCEPT !.Constraints = Constraints(<< >>, << >>)])]
Resign(token) == Sign(TokenClaims(token), PrivateHalf(AttackerKey))

\* Token strings that are not the encoding of any message and signature.
WrongHeader == [hdr |-> "v1.public.", payload |-> EncodeToString(Short)]
IllegalBase64 == [hdr |-> v2PublicHeader, payload |-> [illegal |-> "0"]]
TooShort == [hdr |-> v2PublicHeader, payload |-> EncodeToString(Short)]

\* The tokens a client can present that identity made, and none.
Presentable == {NoToken} \cup { issued[k] : k \in DOMAIN issued }

\* The token strings a client can present that decode to no message and
\* signature.
Malformed == {WrongHeader, IllegalBase64, TooShort}

\* The tokens a client can present that identity did not make as they are.
\* Their requests come with one choice of params: Verify refuses them
\* before the handler reads any.
Forged ==
    Malformed
    \cup { Tamper(issued[k]) : k \in DOMAIN issued }
    \cup { Resign(issued[k]) : k \in DOMAIN issued }

NoParams == [k \in {} |-> << >>]
PathParams(p) == [k \in {"path"} |-> p]
HandleParams(h) == [k \in {"handle"} |-> h]

OpenPaths == { P_tmp \o << "/", "x" >>, << "/", "e", "t", "c", "/", "p", "w" >>,
               P_tmp \o << "/", "n", "o" >> }
ListPaths == { P_tmp, << "/", "e", "t", "c" >> }
ReadHandles == { HandleId(1), HandleId(2) }

ClientRequests ==
    { Request(M_fs_open, t, pp) :
        t \in Presentable, pp \in {NoParams} \cup { PathParams(p) : p \in OpenPaths } }
    \cup { Request(M_fs_list, t, pp) :
        t \in Presentable, pp \in {NoParams} \cup { PathParams(p) : p \in ListPaths } }
    \cup { Request(M_fs_read, t, pp) :
        t \in Presentable, pp \in {NoParams} \cup { HandleParams(h) : h \in ReadHandles } }
    \cup { Request(M_fs_open, t, PathParams(P_tmp \o << "/", "x" >>)) : t \in Forged }
    \cup { Request(M_fs_list, t, PathParams(P_tmp)) : t \in Forged }
    \cup { Request(M_fs_read, t, HandleParams(HandleId(1))) : t \in Forged }
    \cup { OtherVersion, UnknownMethod }

\* The capability id a request is made under: the id in its token.
ReqCapId(req) ==
    IF TokenClaims(req.Token) = NilClaims THEN "" ELSE TokenClaims(req.Token).ID

FreshConn(req) ==
    [pc |-> "revchk", req |-> req, claims |-> NilClaims, entry |-> NilValue,
     resp |-> NilValue,
     \* observer fields
     tAuth |-> 0,            \* the clock at extractClaims
     bksAtAuth |-> NoBuckets,\* the rate limiter's map before Authorize
     authorized |-> FALSE,   \* Authorize returned nil
     revAtStart |-> ReqCapId(req) \in revoked,
     idRetAtStart |-> revocations,
     checked |-> FALSE,      \* the revocation check was made
     revAtChk |-> FALSE,     \* the id was in fs's revoked set at the check
     io |-> FALSE,           \* the file operation was performed
     ioRevoked |-> FALSE,    \* ... while the id was in fs's revoked set
     okRevoked |-> FALSE]    \* ok:true was returned while it was

\* What a handler has when it reaches the revocation check, or the response
\* it returned before: the claims and the rate limiter's map afterwards.
Returned(resp, claims, bks) == [resp |-> resp, claims |-> claims, buckets |-> bks]
Passed(claims, bks) == [resp |-> NilValue, claims |-> claims, buckets |-> bks]

\* fs.open and fs.list after extractClaims returned ec and Authorize a.
PathHandlerChecks(req, ec, path, a, bks) ==
    IF ec.resp # NilValue THEN Returned(ec.resp, ec.claims, bks)
    ELSE IF path = << >>
    THEN Returned(ErrorResponse(req.ReqID, ErrInvalidRequest, "missing path param"),
                  ec.claims, bks)
    ELSE IF a.err # NoError
    THEN Returned(policyError(req.ReqID, a.err), ec.claims, a.buckets)
    ELSE Passed(ec.claims, a.buckets)

PathHandlerAuthorize(req, ec, path, bks, t, wd) ==
    PathHandlerChecks(req, ec, path,
        Authorize(ec.claims, req.Method, PathCtx(path), bks, t, wd), bks)

\* fs.open and fs.list up to and including Authorize.
PathHandlerAuth(req, bks, t, wd) ==
    PathHandlerAuthorize(req, extractClaims(req, pubKey, t),
                         ParamString(req, "path"), bks, t, wd)

\* fs.read after extractClaims returned ec and Authorize a.
ReadHandlerChecks(req, ec, a, handle, bks) ==
    IF ec.resp # NilValue THEN Returned(ec.resp, ec.claims, bks)
    ELSE IF a.err # NoError
    THEN Returned(policyError(req.ReqID, a.err), ec.claims, a.buckets)
    ELSE IF handle = << >>
    THEN Returned(ErrorResponse(req.ReqID, ErrInvalidRequest, "missing handle param"),
                  ec.claims, a.buckets)
    ELSE Passed(ec.claims, a.buckets)

ReadHandlerAuthorize(req, ec, bks, t, wd) ==
    ReadHandlerChecks(req, ec, Authorize(ec.claims, M_fs_read, NilCtx, bks, t, wd),
                      ParamString(req, "handle"), bks)

\* fs.read up to and including the handle parameter.
ReadHandlerAuth(req, bks, t, wd) ==
    ReadHandlerAuthorize(req, extractClaims(req, pubKey, t), bks, t, wd)

HandlerAuth(req, bks, t, wd) ==
    IF req.Method = M_fs_read THEN ReadHandlerAuth(req, bks, t, wd)
    ELSE PathHandlerAuth(req, bks, t, wd)

\* The methods fs registers a handler for.
Handlers == {M_fs_open, M_fs_read, M_fs_list, M_fs_revoke}

\* A string of the model as text.
RECURSIVE Text(_)
Text(str) == IF str = << >> THEN "" ELSE Head(str) \o Text(Tail(str))

\* handleConn after ReadRequest: the version check, the handler lookup and
\* the handler (here up to the revocation check).
handleConn(req, bks, t, wd) ==
    IF req.V # 1
    THEN Returned(ErrorResponse(req.ReqID, ErrInvalidRequest,
                                "unsupported protocol version"), NilClaims, bks)
    ELSE IF req.Method \notin Handlers
    THEN Returned(ErrorResponse(req.ReqID, ErrInvalidRequest,
                                "unknown method: " \o Text(req.Method)),
                  NilClaims, bks)
    ELSE HandlerAuth(req, bks, t, wd)

\* handles.Get found no entry under the handle.
NoEntry(table, handle) == handle \notin DOMAIN table

\* A variant without the binding comparison.
ReadHandlerGet_noBinding(req, claims, table, handle) ==
    IF NoEntry(table, handle)
    THEN [resp |-> ErrorResponse(req.ReqID, ErrNotFound, "invalid handle"),
          entry |-> NilValue]
    ELSE [resp |-> NilValue, entry |-> table[handle]]

\* fs.read after Authorize: handles.Get and the binding comparison.
ReadHandlerGet(req, claims, table, handle) ==
    IF NoEntry(table, handle)
    THEN [resp |-> ErrorResponse(req.ReqID, ErrNotFound, "invalid handle"),
          entry |-> NilValue]
    ELSE IF table[handle].capID # claims.ID
    THEN [resp |-> ErrorResponse(req.ReqID, ErrPermDenied,
                                 "handle not bound to this capability"),
          entry |-> NilValue]
    ELSE [resp |-> NilValue, entry |-> table[handle]]

\* The handler returns resp, which handleConn writes to the connection.
Respond(cn, resp) == [cn EXCEPT !.pc = "done", !.resp = resp]

\* The connection after the handler ran up to the revocation check: r is
\* what HandlerAuth gave, g what ReadHandlerGet gave, seen the connection
\* with what the handler saw.
AfterAuth(req, r, g, seen) ==
    IF r.resp # NilValue THEN Respond(seen, r.resp)
    ELSE IF req.Method # M_fs_read
    THEN [seen EXCEPT !.authorized = TRUE, !.pc = "revchk"]
    ELSE IF g.resp # NilValue
    THEN Respond([seen EXCEPT !.authorized = TRUE], g.resp)
    ELSE [seen EXCEPT !.authorized = TRUE, !.pc = "revchk", !.entry = g.entry]

HandleRequest(c, req, r) ==
    /\ buckets' = r.buckets
    /\ conn' = [conn EXCEPT ![c] =
           AfterAuth(req, r,
               ReadHandlerGet(req, r.claims, handles, ParamString(req, "handle")),
               [FreshConn(req) EXCEPT !.tAuth = now, !.bksAtAuth = buckets,
                                      !.claims = r.claims])]

\* The server reads a request from connection c and runs its handler up to
\* the revocation check: extractClaims, the parameter check, policy.Authorize
\* and, for fs.read, the handle lookup.  (Nothing in these steps reads the
\* revocation set, and no other handler writes the handle table.)
Recv(c) ==
    /\ conn[c].pc = "idle"
    /\ nreq < MaxRequests
    /\ nreq' = nreq + 1
    /\ \E req \in ClientRequests : HandleRequest(c, req, handleConn(req, buckets, now, cwd))
    /\ UNCHANGED << now, cwd, polVars, issued, revocations,
                    handles, revoked, nextID >>

\* handleConn writes the response and waits for the next request.
Reply(c) ==
    /\ conn[c].pc = "done"
    /\ conn' = [conn EXCEPT ![c] = IdleConn]
    /\ UNCHANGED << limVars, polVars, issued, revocations,
                    handles, revoked, nextID, nreq >>

\* No response is waiting to be written.  A response is written as soon as
\* the handler returns; what the other services do after that is seen from
\* the state in which the connection is idle again.
NoneDone == \A c \in Conns : conn[c].pc # "done"

\* The capability id the handler checks for revocation.
CheckedCapId(cn) ==
    IF cn.req.Method = M_fs_read THEN cn.entry.capID ELSE cn.claims.ID

\* A variant in which the file operation comes before the revocation check.
FsRevChk_afterOperation(c) ==
    /\ conn[c].pc = "revchk"
    /\ conn' = [conn EXCEPT ![c] =
           IF IsRevoked(revoked, CheckedCapId(conn[c]))
           THEN [conn[c] EXCEPT !.checked = TRUE, !.revAtChk = TRUE, !.io = TRUE,
                                !.pc = "done",
                                !.resp = ErrorResponse(conn[c].req.ReqID, ErrPermDenied,
                                                       "capability revoked")]
           ELSE [conn[c] EXCEPT !.checked = TRUE, !.pc = "io"]]
    /\ UNCHANGED << limVars, polVars, issued, revocations, handles, revoked,
                    nextID, nreq >>

\* A variant that hands the rate token back when the capability is revoked.
FsRevChk_refund(c) ==
    /\ conn[c].pc = "revchk"
    /\ LET capID == CheckedCapId(conn[c])
           seen == [conn[c] EXCEPT !.checked = TRUE, !.revAtChk = capID \in revoked]
       IN  /\ conn' = [conn EXCEPT ![c] =
                 IF IsRevoked(revoked, capID)
                 THEN [seen EXCEPT !.pc = "done",
                                   !.resp = ErrorResponse(conn[c].req.ReqID, ErrPermDenied,
                                                          "capability revoked")]
                 ELSE [seen EXCEPT !.pc = "io"]]
           /\ buckets' = IF IsRevoked(revoked, capID) THEN conn[c].bksAtAuth
                         ELSE buckets
    /\ UNCHANGED << now, cwd, polVars, issued, revocations,
                    handles, revoked, nextID, nreq >>

\* handles.IsRevoked
FsRevChk(c) ==
    /\ conn[c].pc = "revchk"
    /\ LET capID == CheckedCapId(conn[c])
           seen == [conn[c] EXCEPT !.checked = TRUE, !.revAtChk = capID \in revoked]
       IN  conn' = [conn EXCEPT ![c] =
              IF IsRevoked(revoked, capID)
              THEN [seen EXCEPT !.pc = "done",
                                !.resp = ErrorResponse(conn[c].req.ReqID, ErrPermDenied,
                                                       "capability revoked")]
              ELSE [seen EXCEPT !.pc = "io"]]
    /\ UNCHANGED << limVars, polVars, issued, revocations,
                    handles, revoked, nextID, nreq >>

\* A variant that stores the entry without the capability id.
Open_unbound(table, n, file, capID, path) ==
    [k \in (DOMAIN table) \cup {HandleId(n + 1)} |->
        IF k = HandleId(n + 1) THEN handleEntry(file, "", path) ELSE table[k]]

\* handleTable.Open: the next id is drawn and the entry stored under it.
Open(table, n, file, capID, path) ==
    [k \in (DOMAIN table) \cup {HandleId(n + 1)} |->
        IF k = HandleId(n + 1) THEN handleEntry(file, capID, path) ELSE table[k]]

\* The connection after the file operation, answered with resp.
AfterIO(cn, resp, isRevoked) ==
    [cn EXCEPT !.pc = "done", !.resp = resp, !.io = TRUE,
               !.ioRevoked = isRevoked, !.okRevoked = resp.OK /\ isRevoked]

\* fs.open: os.Open found kind at absPath; handles.Open.
OpenIO(c, req, absPath, kind, isRevoked) ==
    IF kind = "none"
    THEN /\ conn' = [conn EXCEPT ![c] = AfterIO(conn[c],
                        ErrorResponse(req.ReqID, ErrNotFound, "file not found"),
                        isRevoked)]
         /\ UNCHANGED << handles, nextID >>
    ELSE /\ handles' = Open(handles, nextID, [path |-> absPath, kind |-> kind],
                            conn[c].claims.ID, absPath)
         /\ nextID' = nextID + 1
         /\ conn' = [conn EXCEPT ![c] = AfterIO(conn[c],
                        SuccessResponse(req.ReqID, [handle |-> HandleId(nextID + 1)]),
                        isRevoked)]

\* fs.list: os.ReadDir found kind at absPath.
ListIO(c, req, absPath, kind, isRevoked) ==
    /\ conn' = [conn EXCEPT ![c] = AfterIO(conn[c],
           IF kind = "none"
           THEN ErrorResponse(req.ReqID, ErrNotFound, "directory not found")
           ELSE IF kind = "file"
           THEN ErrorResponse(req.ReqID, ErrInternal, "not a directory")
           ELSE SuccessResponse(req.ReqID, [entries |-> absPath]),
           isRevoked)]
    /\ UNCHANGED << handles, nextID >>

\* fs.read: entry.file.ReadAt.
ReadIO(c, req, entry, isRevoked) ==
    /\ conn' = [conn EXCEPT ![c] = AfterIO(conn[c],
           IF entry.file.kind = "dir"
           THEN ErrorResponse(req.ReqID, ErrInternal, "is a directory")
           ELSE SuccessResponse(req.ReqID, [data |-> entry.file.path]),
           isRevoked)]
    /\ UNCHANGED << handles, nextID >>

PathIO(c, req, absPath, isRevoked) ==
    IF req.Method = M_fs_open
    THEN OpenIO(c, req, absPath, FileKind(absPath), isRevoked)
    ELSE ListIO(c, req, absPath, FileKind(absPath), isRevoked)

\* The file operation and what follows it: os.Open and handles.Open,
\* os.ReadDir, or ReadAt.
FsIO(c) ==
    /\ conn[c].pc = "io"
    /\ IF conn[c].req.Method = M_fs_read
       THEN ReadIO(c, conn[c].req, conn[c].entry, CheckedCapId(conn[c]) \in revoked)
       ELSE PathIO(c, conn[c].req, Abs(cwd, ParamString(conn[c].req, "path")),
                   CheckedCapId(conn[c]) \in revoked)
    /\ UNCHANGED << limVars, polVars, issued, revocations,
                    revoked, nreq >>

\* No request is being handled.
Quiet == \A c \in Conns : conn[c].pc = "idle"

\* The fs.revoke handler, called by anyone who reaches fs.sock.  Revoking an
\* id that is already in the set changes nothing, whenever it happens; it is
\* taken between requests.
FsRevoke(capID) ==
    /\ NoneDone
    /\ capID \in DOMAIN issued
    /\ capID \in revoked => Quiet
    /\ Cardinality(revoked \cup revocations \cup {capID}) <= MaxRevoked
    /\ revoked' = Revoke(revoked, capID)
    /\ UNCHANGED << limVars, polVars, issued, revocations,
                    handles, nextID, conn, nreq >>

\* The identity.revoke handler: the id joins identity's revocation list, fs
\* is sent fs.revoke, and the handler returns.  When ipc.SendRequest reached
\* fs, the fs.revoke handler ran; when it failed (dial, write or read
\* error), that is logged and nothing else.
IdRevoke(capID) ==
    /\ NoneDone
    /\ capID \in DOMAIN issued
    /\ (capID \in revocations /\ capID \in revoked) => Quiet
    /\ Cardinality(revoked \cup revocations \cup {capID}) <= MaxRevoked
    /\ revocations' = Revoke(revocations, capID)
    /\ \/ revoked' = Revoke(revoked, capID)
       \/ revoked' = revoked
    /\ UNCHANGED << limVars, polVars, issued, handles, nextID, conn, nreq >>

\* A second passes.
TickSecond ==
    /\ NoneDone
    /\ now + TicksPerSec <= MaxSvcSeconds * TicksPerSec
    /\ now' = now + TicksPerSec
    /\ UNCHANGED << cwd, buckets, polVars, svcVars >>

Init ==
    /\ now = 0
    /\ cwd = P_root
    /\ buckets = NoBuckets
    /\ pin = [claims |-> NilClaims, method |-> << >>, ctx |-> NilCtx]
    /\ pres = NoResult
    /\ burst = [k \in PolicyIds |-> 0]
    /\ SvcIdle

Next ==
    \/ Issue
    \/ \E c \in Conns : Recv(c)
    \/ \E c \in Conns : FsRevChk(c)
    \/ \E c \in Conns : FsIO(c)
    \/ \E c \in Conns : Reply(c)
    \/ \E k \in CapIds : FsRevoke(k)
    \/ \E k \in CapIds : IdRevoke(k)
    \/ TickSecond

Spec == Init /\ [][Next]_vars

(***************************************************************************)
(* Properties of the fs service, stated on the response a handler has      *)
(* returned (the connection is at "done") and on what the handler saw.     *)
(***************************************************************************)
Done(c) == conn[c].pc = "done"
InFlight(c) == conn[c].pc # "idle"

\* The token of the request is one identity signed.
Genuine(req) == \E k \in DOMAIN issued : issued[k] = req.Token

InSeq(x, seq) == \E i \in 1..Len(seq) : seq[i] = x

\* The legacy action a method stands for.
LegacyActionOf(method) ==
    IF method = M_fs_open THEN S_open
    ELSE IF method = M_fs_read THEN S_read
    ELSE S_list

\* The request's path lies under the capability's path_prefix.
PathPrefixPassed(cap, req) ==
    LET prefix == cap.Constraints.PathPrefix
        path == ParamString(req, "path")
    IN  \/ prefix = << >>
        \/ req.Method = M_fs_read
        \/ /\ ~Contains(path, S_dotdot)
           /\ \/ Abs(cwd, path) = Abs(cwd, prefix)
              \/ UnderDir(Abs(cwd, path), Abs(cwd, prefix))

\* The rate limiter, as it was when the handler called Authorize, admitted
\* the request.
RateLimitPassed(cap, cn) ==
    enforceRateLimit(cap.ID, cap.Constraints.RateLimit, cn.bksAtAuth, cn.tAuth).err
        = NoError

\* C1: a request is answered ok:true only if its token verified under the
\* loaded public key, was not expired, names service fs, carries the right
\* fs.<action> or the legacy action, passed path_prefix and rate_limit, and
\* its id was not in the revoked set when the handler checked it.
DenyByDefault ==
    \A c \in Conns :
        (Done(c) /\ conn[c].resp.OK) =>
            LET cn == conn[c]
                req == cn.req
                cap == TokenClaims(req.Token)
            IN  /\ req.Token # NoToken
                /\ Genuine(req)
                /\ cn.tAuth <= cap.ExpiresAt
                /\ cap.Service = S_fs
                /\ \/ InSeq(req.Method, cap.Rights)
                   \/ InSeq(LegacyActionOf(req.Method), cap.Actions)
                /\ PathPrefixPassed(cap, req)
                /\ RateLimitPassed(cap, cn)
                /\ cn.checked
                /\ ~cn.revAtChk

\* An fs.read was answered ok:true.
DenyByDefaultReached ==
    \E c \in Conns :
        /\ Done(c)
        /\ conn[c].resp.OK
        /\ conn[c].req.Method = M_fs_read
        /\ Genuine(conn[c].req)

\* C2: once C is in the revoked set, no request under C performs its file
\* operation or returns ok:true, whatever the interleaving.
NoOperationAfterRevoke ==
    \A c \in Conns :
        InFlight(c) => (~conn[c].ioRevoked /\ ~conn[c].okRevoked)

\* The request reads a handle of the table with a token whose id is not the
\* one stored in the entry.
ReadsForeignHandle(c) ==
    /\ Done(c)
    /\ conn[c].req.Method = M_fs_read
    /\ conn[c].req.Token # NoToken
    /\ ParamString(conn[c].req, "handle") \in DOMAIN handles
    /\ handles[ParamString(conn[c].req, "handle")].capID # ReqCapId(conn[c].req)

\* C3 as stated: a read of h with any other capability is answered
\* PermissionDenied (3).
OtherCapabilityAnsweredPermissionDenied ==
    \A c \in Conns :
        (ReadsForeignHandle(c) /\ Genuine(conn[c].req)) =>
            /\ ~conn[c].resp.OK
            /\ conn[c].resp.Error.Code = ErrPermDenied

\* C3: fs.read on h succeeds only when the token's id is the capability id
\* stored in h's entry; a read of h with another capability is answered
\* ok:false and the file is not read, and when that capability passed
\* verification, expiry and Authorize the answer is PermissionDenied (3).
HandleBinding ==
    \A c \in Conns :
        ReadsForeignHandle(c) =>
            /\ ~conn[c].resp.OK
            /\ ~conn[c].io
            /\ conn[c].authorized => conn[c].resp.Error.Code = ErrPermDenied

\* A capability with the fs.read right read a handle another one opened.
HandleBindingReached ==
    \E c \in Conns :
        /\ ReadsForeignHandle(c)
        /\ conn[c].authorized
        /\ conn[c].resp.Error.Message = "handle not bound to this capability"

\* Every handle drawn so far is in the table.
HandlesKept == DOMAIN handles = { HandleId(i) : i \in 1..nextID }

\* C4: a request under C that starts after fs.revoke(C) completed is answered
\* ok:false; the handles C opened stay in the table.
RevocationPermanent ==
    /\ HandlesKept
    /\ \A c \in Conns :
          (Done(c) /\ conn[c].revAtStart) => ~conn[c].resp.OK

\* A read of a handle the capability opened before it was revoked.
RevocationPermanentReached ==
    \E c \in Conns :
        /\ Done(c)
        /\ conn[c].revAtStart
        /\ Genuine(conn[c].req)
        /\ conn[c].req.Method = M_fs_read
        /\ ParamString(conn[c].req, "handle") \in DOMAIN handles
        /\ handles[ParamString(conn[c].req, "handle")].capID = ReqCapId(conn[c].req)
        /\ conn[c].resp.Error.Message = "capability revoked"

\* C5: once identity.revoke(cap_id) has returned, an access using a handle
\* opened under cap_id is never answered ok:true.
EndToEndRevocation ==
    \A c \in Conns :
        ( /\ Done(c)
          /\ conn[c].req.Method = M_fs_read
          /\ Genuine(conn[c].req)
          /\ ReqCapId(conn[c].req) \in conn[c].idRetAtStart
          /\ ParamString(conn[c].req, "handle") \in DOMAIN handles
          /\ handles[ParamString(conn[c].req, "handle")].capID = ReqCapId(conn[c].req) )
        => ~conn[c].resp.OK

(***************************************************************************)
(* The rate limiter alone: calls of enforceRateLimit for one capability    *)
(* with the clock advancing a tick at a time.                              *)
(***************************************************************************)
\* The clock of the rate-limiter harness runs from 0 to MaxRefillSeconds.
MaxRefillSeconds == 2

\* Rates whose period 1/N is a whole number of ticks: the string handed to
\* parseRate and the period in ticks.
RefillRates ==
    { [str |-> << "0", ".", "5" >> \o S_rps, period |-> 2 * TicksPerSec],
      [str |-> RpsString(1), period |-> TicksPerSec],
      [str |-> RpsString(2), period |-> TicksPerSec \div 2],
      [str |-> << "2", ".", "5" >> \o S_rps, period |-> (2 * TicksPerSec) \div 5],
      [str |-> RpsString(5), period |-> TicksPerSec \div 5] }

RefillClaims ==
    { Capability("c1", 0, MaxRefillSeconds * TicksPerSec, S_fs, << >>,
                 << M_fs_read >>, Constraints(<< >>, r.str)) : r \in RefillRates }

RefillInit ==
    /\ now = 0
    /\ cwd = P_root
    /\ buckets = NoBuckets
    /\ pin \in [claims : RefillClaims, method : {M_fs_read}, ctx : {NilCtx}]
    /\ pres = NoResult
    /\ burst = [k \in PolicyIds |-> 0]
    /\ SvcIdle

\* What the observer keeps of a call: its outcome, its time, and the outcome
\* and time of the call before it.
RefillResult(r, t, last) ==
    [called |-> TRUE, err |-> r.err, t |-> t,
     prevCalled |-> last.called,
     prevCode |-> IF last.called THEN last.err.Code ELSE 0,
     prevT |-> IF last.called THEN last.t ELSE 0]

\* One call enforceRateLimit(claims.ID, claims.Constraints.RateLimit).
RefillCall ==
    /\ buckets' = enforceRateLimit(pin.claims.ID, pin.claims.Constraints.RateLimit,
                                   buckets, now).buckets
    /\ pres' = RefillResult(
                  enforceRateLimit(pin.claims.ID, pin.claims.Constraints.RateLimit,
                                   buckets, now), now, pres)
    /\ UNCHANGED << now, cwd, pin, burst, svcVars >>

\* A tick passes.
RefillTick ==
    /\ now < MaxRefillSeconds * TicksPerSec
    /\ now' = now + 1
    /\ UNCHANGED << cwd, buckets, pin, pres, burst, svcVars >>

RefillNext == RefillCall \/ RefillTick

RefillSpec == RefillInit /\ [][RefillNext]_vars

\* The period 1/N of the rate the harness was started with.
RefillPeriod == (CHOOSE r \in RefillRates : r.str = pin.claims.Constraints.RateLimit).period

\* The call just made came a period or more after a call that was answered
\* ResourceExhausted, with no call in between.
CalledAfterPeriod ==
    /\ pres.called
    /\ pres.prevCalled
    /\ pres.prevCode = CodeResourceExhausted
    /\ pres.t - pres.prevT >= RefillPeriod

\* C11: for every accepted rate "Nrps", once the bucket is exhausted, a call
\* made 1/N seconds later succeeds.
RefillAfterPeriod == CalledAfterPeriod => pres.err = NoError

\* The codes of the denials: input shape (1), authentication (2),
\* authorization, binding and revocation (3), rate limit (7).
DenialCodes ==
    {ErrInvalidRequest, ErrAuthRequired, ErrPermDenied, CodeResourceExhausted}

\* C12: a request answered with an authentication, authorization,
\* rate-limit, binding, revocation or input-shape error performed no file
\* open, directory read or file read.
DenialTouchesNothing ==
    \A c \in Conns :
        (Done(c) /\ ~conn[c].resp.OK /\ conn[c].resp.Error.Code \in DenialCodes)
            => ~conn[c].io

\* A request that passed Authorize was refused at the revocation check.
DenialTouchesNothingReached ==
    \E c \in Conns :
        /\ Done(c)
        /\ conn[c].authorized
        /\ ~conn[c].resp.OK
        /\ conn[c].resp.Error.Message = "capability revoked"
        /\ ~conn[c].io

\* C13: an id in identity's revocation list or in fs's revoked set is in it
\* in every later state, and revoking an id that is already in a set leaves
\* the set as it is.
RevocationMonotonic ==
    [][ /\ revoked \subseteq revoked'
        /\ revocations \subseteq revocations'
        /\ \A k \in CapIds :
              /\ (k \in revoked /\ FsRevoke(k)) => revoked' = revoked
              /\ (k \in revocations /\ IdRevoke(k)) => revocations' = revocations
      ]_vars

\* A request was answered while the id of its token, revoked at both
\* services before the request was read, is in both sets.
RevocationMonotonicReached ==
    \E c \in Conns :
        /\ Done(c)
        /\ conn[c].revAtStart
        /\ ReqCapId(conn[c].req) \in conn[c].idRetAtStart
        /\ ReqCapId(conn[c].req) \in revoked
        /\ ReqCapId(conn[c].req) \in revocations

\* extractClaims returned the claims of the request's token to the handler.
Admitted(c) == InFlight(c) /\ conn[c].claims # NilClaims

\* The token of the request passes Verify under fs's key.
Verifies(c) == conn[c].req.Token # NoToken /\ Verify(conn[c].req.Token, pubKey).ok

AnsweredUnauthenticated(c) ==
    /\ Done(c)
    /\ ~conn[c].resp.OK
    /\ conn[c].resp.Error.Code = ErrAuthRequired
    /\ ~conn[c].authorized

NoTokenUnauthenticated ==
    \A c \in Conns :
        (Done(c) /\ conn[c].req.Token = NoToken)
            => /\ ~conn[c].resp.OK
               /\ conn[c].resp.Error.Code = ErrAuthRequired

\* The request carried a token that Verify refused.
VerificationFailed(c) ==
    /\ Done(c)
    /\ conn[c].req.Token # NoToken
    /\ ~Verify(conn[c].req.Token, pubKey).ok

\* The answer to a token refused by Verify: code 2, Authorize not called,
\* the rate limiter's map as it was.
RefusedBeforeAuthorize(c) ==
    /\ ~conn[c].resp.OK
    /\ conn[c].resp.Error.Code = ErrAuthRequired
    /\ ~conn[c].authorized
    /\ conn[c].claims = NilClaims
    /\ buckets = conn[c].bksAtAuth

\* C16: a token that fails verification is answered code 2 with the same
\* response whichever check failed (the one a token with a wrong header
\* gets); Authorize is not called and no rate token is consumed.
VerificationFailureGeneric ==
    \A c \in Conns :
        VerificationFailed(c)
            => /\ RefusedBeforeAuthorize(c)
               /\ conn[c].resp =
                      extractClaims([conn[c].req EXCEPT !.Token = WrongHeader],
                                    pubKey, conn[c].tAuth).resp

(***************************************************************************)
(* identity.revoke step by step (cmd/identity), with the connection that   *)
(* ipc.SendRequest opens to fs.sock.  The handler goroutine runs whenever  *)
(* it can; whoever listens on fs.sock owes it nothing.                     *)
(***************************************************************************)
\* Calls of identity.revoke are bounded in number.
MaxRevokeCalls == 3

\* Files opened next to the calls of identity.revoke are bounded in number.
MaxOpens == 2

\* The cap_id parameter: missing, or any id.
RevokeIds == {"", "c1", "c2"}

\* The connection of SendRequest: not open, connected, request written,
\* response written by the peer, closed by the peer.
NoWire == [state |-> "none"]
Wire(st) == [state |-> st]

RevokeRequest(capID) ==
    [V |-> 1, ReqID |-> << "r", "1" >>, Method |-> "identity.revoke",
     Params |-> [k \in {"cap_id"} |-> capID]]

RevokeInit ==
    /\ now = 0
    /\ cwd = P_root
    /\ buckets = NoBuckets
    /\ pin = NoWire
    /\ pres = NilValue
    /\ burst = [k \in RevokeIds \ {""} |-> 0]
    /\ SvcIdle

\* The handler up to SendRequest: the parameter check and revocations.Revoke.
RvCall(c) ==
    /\ conn[c].pc = "idle"
    /\ nreq < MaxRevokeCalls
    /\ nreq' = nreq + 1
    /\ \E capID \in RevokeIds :
          IF capID = ""
          THEN /\ pres' = ErrorResponse(RevokeRequest(capID).ReqID, ErrInvalidRequest,
                                        "missing cap_id param")
               /\ UNCHANGED << revocations, conn >>
          ELSE /\ revocations' = Revoke(revocations, capID)
               /\ conn' = [conn EXCEPT ![c] = [pc |-> "dial", capID |-> capID,
                                                answered |-> FALSE]]
               /\ pres' = NilValue
    /\ UNCHANGED << limVars, pin, burst, issued, handles, revoked, nextID >>

\* net.Dial: the connection is made, or an error is returned.
RvDial(c) ==
    /\ conn[c].pc = "dial"
    /\ \/ /\ pin' = Wire("connected")
          /\ conn' = [conn EXCEPT ![c].pc = "write"]
       \/ /\ pin' = NoWire
          /\ conn' = [conn EXCEPT ![c].pc = "return"]
    /\ UNCHANGED << limVars, pres, burst, issued, revocations, handles, revoked,
                    nextID, nreq >>

\* WriteFrame: the request is written, or an error is returned.
RvWrite(c) ==
    /\ conn[c].pc = "write"
    /\ \/ /\ pin.state = "connected"
          /\ pin' = Wire("sent")
          /\ conn' = [conn EXCEPT ![c].pc = "read"]
       \/ /\ pin' = NoWire
          /\ conn' = [conn EXCEPT ![c].pc = "return"]
    /\ UNCHANGED << limVars, pres, burst, issued, revocations, handles, revoked,
                    nextID, nreq >>

\* A variant in which fs writes its response and revokes later.
RvFsAnswer_later(c) ==
    /\ conn[c].pc = "read"
    /\ pin.state = "sent"
    /\ pin' = Wire("answered")
    /\ UNCHANGED << limVars, pres, burst, issued, revocations, handles, revoked,
                    nextID, conn, nreq >>

\* fs reads the notification, runs fs.revoke and writes its response.
RvFsAnswer(c) ==
    /\ conn[c].pc = "read"
    /\ pin.state = "sent"
    /\ revoked' = Revoke(revoked, conn[c].capID)
    /\ pin' = Wire("answered")
    /\ UNCHANGED << limVars, pres, burst, issued, revocations, handles,
                    nextID, conn, nreq >>

\* The peer closes the connection without a response.
RvFsClose(c) ==
    /\ conn[c].pc \in {"write", "read"}
    /\ pin.state \in {"connected", "sent"}
    /\ pin' = Wire("closed")
    /\ UNCHANGED << limVars, pres, burst, issued, revocations, handles, revoked,
                    nextID, conn, nreq >>

\* ReadFrame returns once a response or the end of the stream is there.
RvRead(c) ==
    /\ conn[c].pc = "read"
    /\ pin.state \in {"answered", "closed"}
    /\ pin' = NoWire
    /\ conn' = [conn EXCEPT ![c].pc = "return", ![c].answered = (pin.state = "answered")]
    /\ UNCHANGED << limVars, pres, burst, issued, revocations, handles, revoked,
                    nextID, nreq >>

\* The handler returns; the error of SendRequest was only logged.  The
\* observer notes the ids whose notification fs had answered.
RvReturn(c) ==
    /\ conn[c].pc = "return"
    /\ burst' = IF conn[c].answered THEN [burst EXCEPT ![conn[c].capID] = 1] ELSE burst
    /\ pres' = SuccessResponse(RevokeRequest(conn[c].capID).ReqID,
                               [status |-> "revoked"])
    /\ conn' = [conn EXCEPT ![c] = IdleConn]
    /\ UNCHANGED << limVars, pin, issued, revocations, handles, revoked,
                    nextID, nreq >>

\* fs serves an fs.open of /tmp/x under a token of capability k that passed
\* Authorize: the revocation check, then handles.Open.
RvFsOpen(k) ==
    /\ nextID < MaxOpens
    /\ IF IsRevoked(revoked, k)
       THEN UNCHANGED << handles, nextID >>
       ELSE /\ handles' = Open(handles, nextID,
                               [path |-> P_tmp \o << "/", "x" >>, kind |-> "file"],
                               k, P_tmp \o << "/", "x" >>)
            /\ nextID' = nextID + 1
    /\ UNCHANGED << limVars, polVars, issued, revocations, revoked, conn, nreq >>

RevokeNext ==
    \/ \E c \in Conns :
           \/ RvCall(c)
           \/ RvDial(c)
           \/ RvWrite(c)
           \/ RvFsAnswer(c)
           \/ RvFsClose(c)
           \/ RvRead(c)
           \/ RvReturn(c)
    \/ \E k \in RevokeIds \ {""} : RvFsOpen(k)

\* The steps of the handler goroutine.
RvHandlerStep(c) == RvDial(c) \/ RvWrite(c) \/ RvRead(c) \/ RvReturn(c)

RevokeSpec ==
    /\ RevokeInit
    /\ [][RevokeNext]_vars
    /\ \A c \in Conns : WF_vars(RvHandlerStep(c))

\* The authoritative set was updated and the handler has not returned.
RvUpdated(c) == conn[c].pc \in {"dial", "write", "read", "return"}

RvReturned(c) ==
    /\ conn[c].pc = "idle"
    /\ pres # NilValue
    /\ pres.OK
    /\ pres.Result = [status |-> "revoked"]

\* C17: once identity.revoke has updated the authoritative set, it
\* eventually returns {status: "revoked"} to its caller, whatever becomes
\* of the notification to fs.
RevokeEventuallyReturns ==
    \A c \in Conns : RvUpdated(c) ~> RvReturned(c)

(***************************************************************************)
(* identity.issue called with request params as they come off the wire     *)
(* (cmd/identity).                                                         *)
(***************************************************************************)
\* Calls of identity.issue are bounded in number, and the clock runs from 0
\* to MaxIssueSeconds seconds.
MaxIssueCalls == 1
MaxIssueSeconds == 1

\* JSON values of a params object; JNull stands for a missing key.
JNull == [null |-> TRUE]
JString(str) == [str |-> str]
JNumber(x) == [num |-> x]
JArray(elems) == [arr |-> elems]

\* v.(string), v.(float64) and v.([]any) with the ok result dropped.
AsString(v) == IF "str" \in DOMAIN v THEN v.str ELSE << >>
AsFloat(v) == IF "num" \in DOMAIN v THEN v.num ELSE Float(0, 0, 0)
AsArray(v) == IF "arr" \in DOMAIN v THEN v.arr ELSE << >>

IsJString(v) == "str" \in DOMAIN v

\* The elements of a params array that are strings.
RECURSIVE StringElems(_)
StringElems(elems) ==
    IF elems = << >> THEN << >>
    ELSE IF IsJString(Head(elems)) THEN << Head(elems).str >> \o StringElems(Tail(elems))
    ELSE StringElems(Tail(elems))

\* The local variables of the handler after its type assertions.
TypedParams(raw) ==
    [service |-> AsString(raw.service),
     actions |-> StringElems(AsArray(raw.actions)),
     rights |-> StringElems(AsArray(raw.rights)),
     path_prefix |-> AsString(raw.path_prefix),
     rate_limit |-> AsString(raw.rate_limit),
     ttl_seconds |-> AsFloat(raw.ttl_seconds)]

\* ttl_seconds as requested: missing, not a number, negative, zero, a
\* fraction, whole, whole and a fraction, and two values next to 2^64
\* nanoseconds.
RawTTLs ==
    { JNull, JString(<< "6", "0" >>), JNumber(Float(0, -1, 0)), JNumber(Float(0, 0, 0)),
      JNumber(Float(0, 0, 5)), JNumber(Float(0, 1, 0)), JNumber(Float(0, 2, 5)),
      JNumber(Float(TwoTo64.giga, TwoTo64.sec, 0)),
      JNumber(Float(TwoTo64.giga, TwoTo64.sec + 1, 0)) }

RawIssueParams ==
    [service : { JNull, JString(<< >>), JString(S_fs), JNumber(Float(0, 1, 0)) },
     actions : { JNull, JArray(<< >>), JArray(<< JString(S_open) >>),
                 JArray(<< JNumber(Float(0, 1, 0)) >>), JString(S_open) },
     rights : { JNull, JArray(<< JString(M_fs_read) >>) },
     path_prefix : { JNull },
     rate_limit : { JNull },
     ttl_seconds : RawTTLs]

IssueInit ==
    /\ now = 0
    /\ cwd = P_root
    /\ buckets = NoBuckets
    /\ pin = JNull
    /\ pres = NoResult
    /\ burst = [k \in PolicyIds |-> 0]
    /\ SvcIdle

\* What the observer keeps of a call: the response, the token minted, the
\* clock, and the tokens minted before.
IssueResult(r, t, before) ==
    [called |-> TRUE, resp |-> r.resp, token |-> r.token, t |-> t, before |-> before]

IssueMinted(r, id, before) ==
    IF r.resp.OK
    THEN [k \in (DOMAIN before) \cup {id} |-> IF k = id THEN r.token ELSE before[k]]
    ELSE before

\* One call of identity.issue.
IssueCall ==
    /\ nreq < MaxIssueCalls
    /\ Cardinality(DOMAIN issued) < Len(CapIdSeq)
    /\ nreq' = nreq + 1
    /\ \E raw \in RawIssueParams :
          /\ pin' = raw
          /\ pres' = IssueResult(
                        IssueHandler(TypedParams(raw),
                                     CapIdSeq[Cardinality(DOMAIN issued) + 1], now),
                        now, issued)
          /\ issued' = IssueMinted(
                          IssueHandler(TypedParams(raw),
                                       CapIdSeq[Cardinality(DOMAIN issued) + 1], now),
                          CapIdSeq[Cardinality(DOMAIN issued) + 1], issued)
    /\ UNCHANGED << limVars, burst, revocations, handles, revoked, nextID, conn >>

\* A second passes.
IssueTick ==
    /\ now + TicksPerSec <= MaxIssueSeconds * TicksPerSec
    /\ now' = now + TicksPerSec
    /\ UNCHANGED << cwd, buckets, polVars, svcVars >>

IssueNext == IssueCall \/ IssueTick

IssueSpec == IssueInit /\ [][IssueNext]_vars

\* The request of the last call had no service, or neither an action nor a
\* right, that is a string.
NoServiceRequested == ~IsJString(pin.service) \/ pin.service.str = << >>
NoStringIn(v) ==
    \/ "arr" \notin DOMAIN v
    \/ \A i \in 1..Len(v.arr) : ~IsJString(v.arr[i])
NeitherActionsNorRights == NoStringIn(pin.actions) /\ NoStringIn(pin.rights)

\* C18: identity.issue answers code 1 and mints no token when service is
\* empty or when both actions and rights are empty; every issued token has
\* a non-empty service and at least one of actions, rights non-empty.
IssuanceValidation ==
    /\ (pres.called /\ (NoServiceRequested \/ NeitherActionsNorRights))
          => /\ ~pres.resp.OK
             /\ pres.resp.Error.Code = ErrInvalidRequest
             /\ pres.token = NoToken
             /\ issued = pres.before
    /\ \A k \in DOMAIN issued :
          /\ Verify(issued[k], PublicHalf(IdentityKey)).ok
          /\ TokenClaims(issued[k]).Service # << >>
          /\ \/ TokenClaims(issued[k]).Actions # << >>
             \/ TokenClaims(issued[k]).Rights # << >>

\* A request with a service and an actions array that holds no string was
\* refused.
IssuanceValidationReached ==
    /\ pres.called
    /\ ~NoServiceRequested
    /\ NeitherActionsNorRights
    /\ "arr" \in DOMAIN pin.actions
    /\ pin.actions.arr # << >>
    /\ ~pres.resp.OK
    /\ pres.resp.Error.Message = "actions or rights required"

\* The ttl the last request asked for: ttl_seconds when it is a positive
\* number, DefaultTTL seconds otherwise.
RequestedTTL ==
    IF /\ "num" \in DOMAIN pin.ttl_seconds
       /\ \/ pin.ttl_seconds.num.giga > 0
          \/ pin.ttl_seconds.num.sec > 0
          \/ (pin.ttl_seconds.num.sec = 0 /\ pin.ttl_seconds.num.tenths > 0)
    THEN pin.ttl_seconds.num
    ELSE Float(0, DefaultTTL, 0)

\* A span of ticks is exactly x seconds.
LastsFor(ticks, x) ==
    /\ x.giga = 0
    /\ ticks * RateDen = (x.sec * RateDen + x.tenths) * TicksPerSec

\* C19: every issued token has expires_at = issued_at + ttl seconds, ttl
\* being the requested ttl_seconds when positive and 3600 otherwise, and
\* issued_at <= expires_at.
TokenLifetime ==
    (pres.called /\ pres.resp.OK)
        => /\ TokenClaims(pres.token).IssuedAt = pres.t
           /\ LastsFor(TokenClaims(pres.token).ExpiresAt
                           - TokenClaims(pres.token).IssuedAt, RequestedTTL)
           /\ TokenClaims(pres.token).IssuedAt <= TokenClaims(pres.token).ExpiresAt

(***************************************************************************)
(* Sign and Verify as functions (internal/auth): a claims record is signed *)
(* with the private half of a key pair and the token verified with the     *)
(* public half of the same pair.                                           *)
(***************************************************************************)
CodecKeys == {IdentityKey, AttackerKey}

CodecClaims ==
    { Capability("c1", t[1], t[2], svc, acts, rts, Constraints(pp, rl)) :
        t \in { << 0, TicksPerSec >>, << TicksPerSec, 0 >> },
        svc \in { << >>, S_fs, << InvalidByte >>, << "f", InvalidByte >> },
        acts \in { << >>, << S_open >>, << S_open, << InvalidByte >> >> },
        rts \in { << >>, << M_fs_read >> },
        pp \in { << >>, P_tmp, << "/", InvalidByte >> },
        rl \in { << >>, RpsString(1) } }

NotSigned == [signed |-> FALSE, verified |-> FALSE, mutated |-> FALSE]

CodecInit ==
    /\ now = 0
    /\ cwd = P_root
    /\ buckets = NoBuckets
    /\ pin \in [claims : CodecClaims, key : CodecKeys]
    /\ pres = NotSigned
    /\ burst = [k \in PolicyIds |-> 0]
    /\ SvcIdle

\* token := Sign(claims, sk)
CodecSign ==
    /\ ~pres.signed
    /\ pres' = [signed |-> TRUE, verified |-> FALSE, mutated |-> FALSE,
                token |-> Sign(pin.claims, PrivateHalf(pin.key))]
    /\ UNCHANGED << limVars, pin, burst, svcVars >>

\* Verify(token, pk)
CodecVerify ==
    /\ pres.signed
    /\ ~pres.verified
    /\ ~pres.mutated
    /\ pres' = [signed |-> TRUE, verified |-> TRUE, mutated |-> FALSE,
                token |-> pres.token,
                out |-> Verify(pres.token, PublicHalf(pin.key))]
    /\ UNCHANGED << limVars, pin, burst, svcVars >>

\* The token strings that differ from a signed one in a single byte: a byte
\* of the header; a base64 character replaced by one outside the alphabet;
\* one replaced so that a byte of the message differs (a letter of a value,
\* or a byte the JSON syntax needs); one replaced so that a byte of the
\* signature differs; the last one replaced so that only its spare bits
\* differ.
Mutations(token) ==
    { [token EXCEPT !.hdr = "v2.publiC."],
      [token EXCEPT !.payload = [illegal |-> "10"]],
      [token EXCEPT !.payload.b64.message["sub"] = "capabilitx"],
      [token EXCEPT !.payload.b64.message = NotJSON],
      [token EXCEPT !.payload.b64.tail.signer = "?"] }
    \cup (IF SpareBits(token.payload.b64) > 0
          THEN { [token EXCEPT !.payload.spare = 1] }
          ELSE {})

\* Verify(token', pk) for a token' one byte away from the signed token.
CodecMutate ==
    /\ pres.signed
    /\ ~pres.verified
    /\ ~pres.mutated
    /\ \E m \in Mutations(pres.token) :
          pres' = [signed |-> TRUE, verified |-> FALSE, mutated |-> TRUE,
                   token |-> m, out |-> Verify(m, PublicHalf(pin.key))]
    /\ UNCHANGED << limVars, pin, burst, svcVars >>

CodecNext == CodecSign \/ CodecVerify \/ CodecMutate

CodecSpec == CodecInit /\ [][CodecNext]_vars

ValidString(str) == \A i \in 1..Len(str) : str[i] # InvalidByte
ValidStrings(strs) == \A i \in 1..Len(strs) : ValidString(strs[i])

\* Every string of the claims is valid UTF-8.
ValidClaims(cap) ==
    /\ ValidString(cap.Service)
    /\ ValidStrings(cap.Actions)
    /\ ValidStrings(cap.Rights)
    /\ ValidString(cap.Constraints.PathPrefix)
    /\ ValidString(cap.Constraints.RateLimit)

\* str with each invalid byte replaced by U+FFFD.
SameButInvalid(out, str) ==
    /\ Len(out) = Len(str)
    /\ \A i \in 1..Len(str) :
          out[i] = (IF str[i] = InvalidByte THEN ReplacementChar ELSE str[i])

SameButInvalidEach(outs, strs) ==
    /\ Len(outs) = Len(strs)
    /\ \A i \in 1..Len(strs) : SameButInvalid(outs[i], strs[i])

TamperEvidence ==
    pres.mutated => (~pres.out.ok /\ pres.out.cap = NilClaims)

(***************************************************************************)
(* The error object of a response on the wire.                            *)
(***************************************************************************)
\* The symbolic names of the error codes.
ErrorNames == {"INVALID_ARGUMENT", "UNAUTHENTICATED", "PERMISSION_DENIED",
               "NOT_FOUND", "INTERNAL", "RESOURCE_EXHAUSTED"}

\* The error object carries a numeric code and a symbolic name.
CarriesCodeAndName(e) ==
    /\ "code" \in DOMAIN e
    /\ e["code"] \in Int
    /\ "name" \in DOMAIN e
    /\ e["name"] \in ErrorNames

\* C22: every response with ok = false that fs writes on the wire carries
\* both the numeric code and the symbolic name of the error.
ErrorCarriesName ==
    \A c \in Conns :
        (Done(c) /\ ~MarshalResponse(conn[c].resp)["ok"])
            => /\ "error" \in DOMAIN MarshalResponse(conn[c].resp)
               /\ CarriesCodeAndName(MarshalResponse(conn[c].resp)["error"])

(***************************************************************************)
(* The response envelope on the wire.                                      *)
(***************************************************************************)
\* w is the wire form of a response to req.
Envelope(w, req) ==
    /\ w["v"] = 1
    /\ w["req_id"] = req.ReqID
    /\ ("result" \in DOMAIN w) <=> w["ok"]
    /\ ("error" \in DOMAIN w) <=> ~w["ok"]

\* C23: every response fs writes has v = 1 and the req_id of the request it
\* answers; result is present exactly when ok is true and error is present
\* exactly when ok is false.
ResponseEnvelope ==
    \A c \in Conns :
        Done(c) => Envelope(MarshalResponse(conn[c].resp), conn[c].req)

ResponseEnvelopeReached ==
    \E c \in Conns :
        /\ Done(c)
        /\ conn[c].req.ReqID = << "r", "2" >>
        /\ conn[c].resp.OK
        /\ "entries" \in DOMAIN MarshalResponse(conn[c].resp)["result"]
        /\ "error" \notin DOMAIN MarshalResponse(conn[c].resp)
        /\ Envelope(MarshalResponse(conn[c].resp), conn[c].req)

\* handleConn refused a request of another protocol version.
OtherVersionAnswered ==
    \E c \in Conns :
        /\ Done(c)
        /\ conn[c].req.V # 1
        /\ MarshalResponse(conn[c].resp)["v"] = 1
        /\ MarshalResponse(conn[c].resp)["error"]["code"] = ErrInvalidRequest

(***************************************************************************)
(* The connections of an ipc.Server (internal/ipc/server.go, frame.go):    *)
(* acceptLoop starts one handleConn goroutine per connection; each reads a *)
(* frame, decodes it, answers it and reads the next.                       *)
(***************************************************************************)
\* Frames written by clients are bounded in number.
MaxFrames == 3

ServerConns == {"a", "b"}

maxFrameSize == 1048576

\* A key the JSON object does not have.
Absent == [absent |-> TRUE]

\* A JSON object with the keys of a request; params maps names to strings.
JObject(v, id, method, params) ==
    [k \in { j \in {"v", "req_id", "method", "params"} :
               [v |-> v, req_id |-> id, method |-> method, params |-> params][j] # Absent } |->
        [v |-> v, req_id |-> id, method |-> method, params |-> params][k]]

\* A frame: the length its header announces and its payload.
Frame(size, data) == [size |-> size, data |-> data]

\* The length of a payload that fits.
SmallFrame == 64

\* What clients write: fs.revoke of c1; fs.list without a token; another
\* protocol version; a method without a handler and without req_id;
\* fs.revoke without params under an id holding an invalid byte; a request
\* without v; v of the wrong type; bytes that are not JSON; a frame that
\* announces more than maxFrameSize bytes.
ServerFrames ==
    { Frame(SmallFrame, JObject(JNumber(1), JString(<< "r", "1" >>), JString(M_fs_revoke),
                                [k \in {"cap_id"} |-> << "c", "1" >>])),
      Frame(SmallFrame, JObject(JNumber(1), JString(<< "r", "2" >>), JString(M_fs_list),
                                [k \in {"path"} |-> P_tmp])),
      Frame(SmallFrame, JObject(JNumber(2), JString(<< "r", "3" >>), JString(M_fs_list), Absent)),
      Frame(SmallFrame, JObject(JNumber(1), Absent, JString(M_fs_write), Absent)),
      Frame(SmallFrame, JObject(JNumber(1), JString(<< "r", InvalidByte >>),
                                JString(M_fs_revoke), Absent)),
      Frame(SmallFrame, JObject(Absent, JString(<< "r", "4" >>), JString(M_fs_revoke), Absent)),
      Frame(SmallFrame, JObject(JString(<< "1" >>), JString(<< "r", "5" >>),
                                JString(M_fs_revoke), Absent)),
      Frame(SmallFrame, NotJSON),
      Frame(maxFrameSize + 1, NotJSON) }

\* json.Unmarshal of a string field: the zero value when the key is absent,
\* invalid bytes replaced.
StringField(obj, k) == IF k \in DOMAIN obj THEN ToValidUTF8(obj[k].str) ELSE << >>

\* json.Unmarshal into a Request.
UnmarshalRequest(obj) ==
    [V |-> IF "v" \in DOMAIN obj THEN obj["v"].num ELSE 0,
     ReqID |-> StringField(obj, "req_id"),
     Method |-> StringField(obj, "method"),
     Token |-> NoToken,
     Params |-> IF "params" \in DOMAIN obj
                THEN [k \in DOMAIN obj["params"] |-> ToValidUTF8(obj["params"][k])]
                ELSE [k \in {} |-> << >>]]

\* ReadRequest: ReadFrame refuses a frame over maxFrameSize, json.Unmarshal
\* refuses what is not JSON and a value of the wrong type.
ReadRequest(frame) ==
    IF frame.size > maxFrameSize
    THEN [err |-> "frame too large", req |-> NilValue]
    ELSE IF frame.data = NotJSON
    THEN [err |-> "unmarshal request", req |-> NilValue]
    ELSE IF "v" \in DOMAIN frame.data /\ "num" \notin DOMAIN frame.data["v"]
    THEN [err |-> "unmarshal request", req |-> NilValue]
    ELSE [err |-> "", req |-> UnmarshalRequest(frame.data)]

\* A variant that asks for a token.
RevokeHandler_authenticated(req, set) ==
    IF req.Token = NoToken
    THEN [resp |-> ErrorResponse(req.ReqID, ErrAuthRequired, "token required"),
          revoked |-> set]
    ELSE IF ParamString(req, "cap_id") = << >>
    THEN [resp |-> ErrorResponse(req.ReqID, ErrInvalidRequest, "missing cap_id param"),
          revoked |-> set]
    ELSE [resp |-> SuccessResponse(req.ReqID, [status |-> "revoked"]),
          revoked |-> Revoke(set, Text(ParamString(req, "cap_id")))]

\* The fs.revoke handler.
RevokeHandler(req, set) ==
    IF ParamString(req, "cap_id") = << >>
    THEN [resp |-> ErrorResponse(req.ReqID, ErrInvalidRequest, "missing cap_id param"),
          revoked |-> set]
    ELSE [resp |-> SuccessResponse(req.ReqID, [status |-> "revoked"]),
          revoked |-> Revoke(set, Text(ParamString(req, "cap_id")))]

\* handleConn from the version check to the response of the handler, for
\* requests without a token: the response and fs's revoked set afterwards.
Dispatch(req, set, bks, t, wd) ==
    IF req.V = 1 /\ req.Method = M_fs_revoke THEN RevokeHandler(req, set)
    ELSE [resp |-> handleConn(req, bks, t, wd).resp, revoked |-> set]

\* A connection handleConn was started for: the frames written to it and
\* not yet read, the request being answered, the response to write, and as
\* observers the requests decoded so far and the responses written so far.
AcceptedConn ==
    [pc |-> "read", inbox |-> << >>, eof |-> FALSE, req |-> NilValue, resp |-> NilValue,
     decoded |-> << >>, outbox |-> << >>]

ServerInit ==
    /\ now = 0
    /\ cwd = P_root
    /\ buckets = NoBuckets
    /\ pin = NoWire
    /\ pres = NilValue
    /\ burst = [k \in PolicyIds |-> 0]
    /\ issued = NoFunction
    /\ revocations = {}
    /\ handles = NoFunction
    /\ revoked = {}
    /\ nextID = 0
    /\ conn = [c \in ServerConns |-> AcceptedConn]
    /\ nreq = 0

\* A client writes a frame to its connection.
CliWrite(c) ==
    /\ ~conn[c].eof
    /\ conn[c].pc # "closed"
    /\ nreq < MaxFrames
    /\ nreq' = nreq + 1
    /\ \E f \in ServerFrames :
          conn' = [conn EXCEPT ![c].inbox = Append(@, f)]
    /\ UNCHANGED << limVars, polVars, issued, revocations, handles, revoked, nextID >>

\* A client that has read every response closes its connection, as
\* SendRequest does.
CliClose(c) ==
    /\ ~conn[c].eof
    /\ conn[c].pc = "read"
    /\ conn[c].inbox = << >>
    /\ conn' = [conn EXCEPT ![c].eof = TRUE]
    /\ UNCHANGED << limVars, polVars, issued, revocations, handles, revoked,
                    nextID, nreq >>

\* A variant that reads the next frame while a request is being answered.
SrvRead_pipelined(c) ==
    /\ conn[c].pc \in {"read", "handle", "write"}
    /\ conn[c].inbox # << >>
    /\ conn' = [conn EXCEPT ![c] =
           IF ReadRequest(Head(conn[c].inbox)).err # ""
           THEN [@ EXCEPT !.pc = "closed", !.inbox = << >>]
           ELSE [@ EXCEPT !.pc = "handle", !.inbox = Tail(@),
                          !.req = ReadRequest(Head(conn[c].inbox)).req,
                          !.decoded = Append(@, ReadRequest(Head(conn[c].inbox)).req)]]
    /\ UNCHANGED << limVars, polVars, issued, revocations, handles, revoked,
                    nextID, nreq >>

\* handleConn at ReadRequest: the next frame is decoded, or the error (also
\* the end of the stream) makes handleConn return and close the connection.
SrvRead(c) ==
    /\ conn[c].pc = "read"
    /\ \/ /\ conn[c].inbox # << >>
          /\ conn' = [conn EXCEPT ![c] =
                 IF ReadRequest(Head(conn[c].inbox)).err # ""
                 THEN [@ EXCEPT !.pc = "closed", !.inbox = << >>]
                 ELSE [@ EXCEPT !.pc = "handle", !.inbox = Tail(@),
                                !.req = ReadRequest(Head(conn[c].inbox)).req,
                                !.decoded = Append(@, ReadRequest(Head(conn[c].inbox)).req)]]
       \/ /\ conn[c].inbox = << >>
          /\ conn[c].eof
          /\ conn' = [conn EXCEPT ![c].pc = "closed"]
    /\ UNCHANGED << limVars, polVars, issued, revocations, handles, revoked,
                    nextID, nreq >>

\* handleConn from the version check to the return of the handler.
SrvHandle(c) ==
    /\ conn[c].pc = "handle"
    /\ revoked' = Dispatch(conn[c].req, revoked, buckets, now, cwd).revoked
    /\ conn' = [conn EXCEPT ![c].pc = "write",
                            ![c].resp = Dispatch(conn[c].req, revoked, buckets, now, cwd).resp]
    /\ UNCHANGED << limVars, polVars, issued, revocations, handles, nextID, nreq >>

\* WriteFrame of the response.
SrvWrite(c) ==
    /\ conn[c].pc = "write"
    /\ conn' = [conn EXCEPT ![c].pc = "read", ![c].req = NilValue, ![c].resp = NilValue,
                            ![c].outbox = Append(@, MarshalResponse(conn[c].resp))]
    /\ UNCHANGED << limVars, polVars, issued, revocations, handles, revoked,
                    nextID, nreq >>

ServerNext ==
    \E c \in ServerConns :
        \/ CliWrite(c)
        \/ CliClose(c)
        \/ SrvRead(c)
        \/ SrvHandle(c)
        \/ SrvWrite(c)

ServerSpec == ServerInit /\ [][ServerNext]_vars

\* The requests of connection c that have been answered.
Answered(c) ==
    IF conn[c].pc \in {"handle", "write"}
    THEN SubSeq(conn[c].decoded, 1, Len(conn[c].decoded) - 1)
    ELSE conn[c].decoded

MaxOps == 3

\* The token the clients hold: every fs method under /tmp, two calls a second.
ShutdownToken ==
    IssueHandler([service |-> S_fs, actions |-> << >>,
                  rights |-> << M_fs_open, M_fs_read, M_fs_list >>,
                  path_prefix |-> P_tmp, rate_limit |-> RpsString(2),
                  ttl_seconds |-> Float(0, 0, 0)], "c1", 0).token

ShutdownRequests ==
    { Request(M_fs_open, ShutdownToken, PathParams(P_tmp \o << "/", "x" >>)),
      Request(M_fs_open, ShutdownToken, PathParams(P_tmp \o << "/", "n", "o" >>)),
      Request(M_fs_read, ShutdownToken, HandleParams(HandleId(1))),
      Request(M_fs_list, ShutdownToken, PathParams(P_tmp)),
      Request(M_fs_list, NoToken, PathParams(P_tmp)) }

\* main and the listener.
Serving == [main |-> "serving", listening |-> TRUE]

\* sync.RWMutex and sync.Mutex, both free, and no file open.
NoLocks == [mu |-> [w |-> "", r |-> {}], limiter |-> "", fds |-> {}]

\* A connection before acceptLoop has accepted it, and one whose handleConn
\* waits in ReadRequest.
NotAccepted ==
    [pc |-> "none", req |-> NilValue, claims |-> NilClaims, entry |-> NilValue,
     file |-> NilValue, resp |-> NilValue, atShutdown |-> FALSE, hurt |-> FALSE]
Waiting(cn) ==
    [NotAccepted EXCEPT !.pc = "idle", !.hurt = cn.hurt]

\* The locks goroutine g holds.
Holds(g) ==
    (IF pres.mu.w = g \/ g \in pres.mu.r THEN {"handleTable.mu"} ELSE {})
    \cup (IF pres.limiter = g THEN {"globalLimiter.mu"} ELSE {})

\* The process has not exited.
Alive == pin.main # "exited"

ShutdownInit ==
    /\ now = 0
    /\ cwd = P_root
    /\ buckets = NoBuckets
    /\ pin = Serving
    /\ pres = NoLocks
    /\ burst = [k \in PolicyIds |-> 0]
    /\ issued = [k \in {"c1"} |-> ShutdownToken]
    /\ revocations = {}
    /\ handles = NoFunction
    /\ revoked = {}
    /\ nextID = 0
    /\ conn = [c \in ServerConns |-> NotAccepted]
    /\ nreq = 0

\* acceptLoop: listener.Accept and go s.handleConn(conn).
ShAccept(c) ==
    /\ Alive
    /\ pin.listening
    /\ conn[c].pc = "none"
    /\ conn' = [conn EXCEPT ![c].pc = "idle"]
    /\ UNCHANGED << limVars, polVars, issued, revocations, handles, revoked,
                    nextID, nreq >>

\* handleConn reads a request and calls its handler.
ShRecv(c) ==
    /\ Alive
    /\ conn[c].pc = "idle"
    /\ nreq < MaxOps
    /\ nreq' = nreq + 1
    /\ \E req \in ShutdownRequests :
          conn' = [conn EXCEPT ![c].pc = "auth", ![c].req = req]
    /\ UNCHANGED << limVars, polVars, issued, revocations, handles, revoked, nextID >>

\* The call of Authorize reaches the locked part of enforceRateLimit.
EntersLimiter(req, t, wd) == handleConn(req, NoBuckets, t, wd).buckets # NoBuckets

\* The connection once Authorize has returned r.
ShAfterAuth(cn, r) ==
    IF r.resp # NilValue THEN [cn EXCEPT !.pc = "write", !.resp = r.resp]
    ELSE [cn EXCEPT !.claims = r.claims,
                    !.pc = IF cn.req.Method = M_fs_read THEN "getLock" ELSE "revLock"]

\* The handler up to globalLimiter.mu.Lock(), or past Authorize when the
\* call does not get that far.
ShAuth(c) ==
    /\ Alive
    /\ conn[c].pc = "auth"
    /\ IF EntersLimiter(conn[c].req, now, cwd)
       THEN /\ pres.limiter = ""
            /\ pres' = [pres EXCEPT !.limiter = c]
            /\ conn' = [conn EXCEPT ![c].pc = "limiter"]
       ELSE /\ conn' = [conn EXCEPT ![c] =
                   ShAfterAuth(conn[c], handleConn(conn[c].req, buckets, now, cwd))]
            /\ UNCHANGED pres
    /\ UNCHANGED << limVars, pin, burst, issued, revocations, handles, revoked,
                    nextID, nreq >>

\* enforceRateLimit under the mutex, its Unlock, and the rest of the handler
\* up to the first use of the handle table.
ShLimiter(c) ==
    /\ Alive
    /\ conn[c].pc = "limiter"
    /\ buckets' = handleConn(conn[c].req, buckets, now, cwd).buckets
    /\ pres' = [pres EXCEPT !.limiter = ""]
    /\ conn' = [conn EXCEPT ![c] =
           ShAfterAuth(conn[c], handleConn(conn[c].req, buckets, now, cwd))]
    /\ UNCHANGED << now, cwd, pin, burst, issued, revocations, handles, revoked,
                    nextID, nreq >>

\* ht.mu.RLock() of handles.Get and of handles.IsRevoked.
ShRLock(c) ==
    /\ Alive
    /\ conn[c].pc \in {"getLock", "revLock"}
    /\ pres.mu.w = ""
    /\ pres' = [pres EXCEPT !.mu.r = @ \cup {c}]
    /\ conn' = [conn EXCEPT ![c].pc = IF conn[c].pc = "getLock" THEN "get" ELSE "rev"]
    /\ UNCHANGED << limVars, pin, burst, issued, revocations, handles, revoked,
                    nextID, nreq >>

\* The connection once handles.Get and the binding comparison gave g.
ShAfterGet(cn, g) ==
    IF g.resp # NilValue THEN [cn EXCEPT !.pc = "write", !.resp = g.resp]
    ELSE [cn EXCEPT !.pc = "revLock", !.entry = g.entry]

\* handles.Get under the read lock, its RUnlock, the binding comparison.
ShGet(c) ==
    /\ Alive
    /\ conn[c].pc = "get"
    /\ pres' = [pres EXCEPT !.mu.r = @ \ {c}]
    /\ conn' = [conn EXCEPT ![c] =
           ShAfterGet(conn[c], ReadHandlerGet(conn[c].req, conn[c].claims, handles,
                                              ParamString(conn[c].req, "handle")))]
    /\ UNCHANGED << limVars, pin, burst, issued, revocations, handles, revoked,
                    nextID, nreq >>

\* A variant that keeps the read lock until the handler returns.
ShIsRevoked_holding(c) ==
    /\ Alive
    /\ conn[c].pc = "rev"
    /\ conn' = [conn EXCEPT ![c] =
           IF IsRevoked(revoked, CheckedCapId(conn[c]))
           THEN [@ EXCEPT !.pc = "write",
                          !.resp = ErrorResponse(conn[c].req.ReqID, ErrPermDenied,
                                                 "capability revoked")]
           ELSE [@ EXCEPT !.pc = "io"]]
    /\ UNCHANGED << limVars, polVars, issued, revocations, handles, revoked,
                    nextID, nreq >>

\* handles.IsRevoked under the read lock and its RUnlock.
ShIsRevoked(c) ==
    /\ Alive
    /\ conn[c].pc = "rev"
    /\ pres' = [pres EXCEPT !.mu.r = @ \ {c}]
    /\ conn' = [conn EXCEPT ![c] =
           IF IsRevoked(revoked, CheckedCapId(conn[c]))
           THEN [@ EXCEPT !.pc = "write",
                          !.resp = ErrorResponse(conn[c].req.ReqID, ErrPermDenied,
                                                 "capability revoked")]
           ELSE [@ EXCEPT !.pc = "io"]]
    /\ UNCHANGED << limVars, pin, burst, issued, revocations, handles, revoked,
                    nextID, nreq >>

\* os.Open in handleTable.Open, with the id drawn from nextID.
ShOpenFile(c, absPath) ==
    IF FileKind(absPath) = "none"
    THEN /\ conn' = [conn EXCEPT ![c].pc = "write",
                                 ![c].resp = ErrorResponse(conn[c].req.ReqID, ErrNotFound,
                                                           "file not found")]
         /\ UNCHANGED << pres, nextID >>
    ELSE /\ nextID' = nextID + 1
         /\ pres' = [pres EXCEPT !.fds = @ \cup {nextID + 1}]
         /\ conn' = [conn EXCEPT ![c].pc = "insLock",
                                 ![c].file = [path |-> absPath, kind |-> FileKind(absPath),
                                              fd |-> nextID + 1]]

\* os.ReadDir
ShReadDir(c, absPath) ==
    /\ conn' = [conn EXCEPT ![c].pc = "write",
                            ![c].resp =
           IF FileKind(absPath) = "none"
           THEN ErrorResponse(conn[c].req.ReqID, ErrNotFound, "directory not found")
           ELSE IF FileKind(absPath) = "file"
           THEN ErrorResponse(conn[c].req.ReqID, ErrInternal, "not a directory")
           ELSE SuccessResponse(conn[c].req.ReqID, [entries |-> absPath])]
    /\ UNCHANGED << pres, nextID >>

\* entry.file.ReadAt: an error when the file has been closed.
ShReadAt(c, entry) ==
    /\ conn' = [conn EXCEPT ![c].pc = "write",
                            ![c].hurt = @ \/ (conn[c].atShutdown /\ entry.file.fd \notin pres.fds),
                            ![c].resp =
           IF entry.file.fd \notin pres.fds
           THEN ErrorResponse(conn[c].req.ReqID, ErrInternal, "file already closed")
           ELSE IF entry.file.kind = "dir"
           THEN ErrorResponse(conn[c].req.ReqID, ErrInternal, "is a directory")
           ELSE SuccessResponse(conn[c].req.ReqID, [data |-> entry.file.path])]
    /\ UNCHANGED << pres, nextID >>

\* The file operation of the handler.
ShIO(c) ==
    /\ Alive
    /\ conn[c].pc = "io"
    /\ IF conn[c].req.Method = M_fs_read THEN ShReadAt(c, conn[c].entry)
       ELSE IF conn[c].req.Method = M_fs_open
       THEN ShOpenFile(c, Abs(cwd, ParamString(conn[c].req, "path")))
       ELSE ShReadDir(c, Abs(cwd, ParamString(conn[c].req, "path")))
    /\ UNCHANGED << limVars, pin, burst, issued, revocations, handles, revoked, nreq >>

\* ht.mu.Lock() in handleTable.Open.
ShLock(c) ==
    /\ Alive
    /\ conn[c].pc = "insLock"
    /\ pres.mu = NoLocks.mu
    /\ pres' = [pres EXCEPT !.mu.w = c]
    /\ conn' = [conn EXCEPT ![c].pc = "ins"]
    /\ UNCHANGED << limVars, pin, burst, issued, revocations, handles, revoked,
                    nextID, nreq >>

\* The entry is stored, ht.mu.Unlock(), and the handler returns the handle.
ShInsert(c) ==
    /\ Alive
    /\ conn[c].pc = "ins"
    /\ handles' = Open(handles, conn[c].file.fd - 1, conn[c].file, conn[c].claims.ID,
                       conn[c].file.path)
    /\ pres' = [pres EXCEPT !.mu.w = ""]
    /\ conn' = [conn EXCEPT ![c].pc = "write",
                            ![c].resp = SuccessResponse(conn[c].req.ReqID,
                                            [handle |-> HandleId(conn[c].file.fd)])]
    /\ UNCHANGED << limVars, pin, burst, issued, revocations, revoked, nextID, nreq >>

\* handleConn writes the response and goes back to ReadRequest.
ShWrite(c) ==
    /\ Alive
    /\ conn[c].pc = "write"
    /\ conn' = [conn EXCEPT ![c] = Waiting(conn[c])]
    /\ UNCHANGED << limVars, polVars, issued, revocations, handles, revoked,
                    nextID, nreq >>

\* The handler of connection c is between its call and its response.
Running(c) == conn[c].pc \notin {"none", "idle"}

\* SIGINT or SIGTERM arrives: main goes on to handles.CloseAll().
ShSignal ==
    /\ pin.main = "serving"
    /\ pin' = [pin EXCEPT !.main = "closeAllLock"]
    /\ conn' = [c \in DOMAIN conn |-> [conn[c] EXCEPT !.atShutdown = Running(c)]]
    /\ UNCHANGED << limVars, pres, burst, issued, revocations, handles, revoked,
                    nextID, nreq >>

\* ht.mu.Lock() in CloseAll.
ShCloseAllLock ==
    /\ pin.main = "closeAllLock"
    /\ pres.mu = NoLocks.mu
    /\ pres' = [pres EXCEPT !.mu.w = "main"]
    /\ pin' = [pin EXCEPT !.main = "closeAll"]
    /\ UNCHANGED << limVars, burst, issued, revocations, handles, revoked,
                    nextID, conn, nreq >>

\* A variant that starts the handle counter again.
ShCloseAll_resetCounter ==
    /\ pin.main = "closeAll"
    /\ pres' = [pres EXCEPT !.mu.w = "",
                            !.fds = @ \ { handles[h].file.fd : h \in DOMAIN handles }]
    /\ handles' = NoFunction
    /\ nextID' = 0
    /\ pin' = [pin EXCEPT !.main = "stop"]
    /\ UNCHANGED << limVars, burst, issued, revocations, revoked, conn, nreq >>

\* CloseAll: every file of the table is closed, the table replaced by an
\* empty one, the lock released.
ShCloseAll ==
    /\ pin.main = "closeAll"
    /\ pres' = [pres EXCEPT !.mu.w = "",
                            !.fds = @ \ { handles[h].file.fd : h \in DOMAIN handles }]
    /\ handles' = NoFunction
    /\ pin' = [pin EXCEPT !.main = "stop"]
    /\ UNCHANGED << limVars, burst, issued, revocations, revoked, nextID, conn, nreq >>

\* srv.Stop(): close(s.done), listener.Close().
ShStop ==
    /\ pin.main = "stop"
    /\ pin' = [main |-> "return", listening |-> FALSE]
    /\ UNCHANGED << limVars, pres, burst, issued, revocations, handles, revoked,
                    nextID, conn, nreq >>

\* main returns: the process exits, its goroutines with it, and the
\* operating system closes what was open.
ShExit ==
    /\ pin.main = "return"
    /\ pin' = [pin EXCEPT !.main = "exited"]
    /\ pres' = [pres EXCEPT !.fds = {}]
    /\ UNCHANGED << limVars, burst, issued, revocations, handles, revoked,
                    nextID, conn, nreq >>

\* The steps of the goroutine that serves connection c.
ShHandlerStep(c) ==
    \/ ShAuth(c)
    \/ ShLimiter(c)
    \/ ShRLock(c)
    \/ ShGet(c)
    \/ ShIsRevoked(c)
    \/ ShIO(c)
    \/ ShLock(c)
    \/ ShInsert(c)
    \/ ShWrite(c)

\* The steps of main after the signal.
ShMainStep == ShCloseAllLock \/ ShCloseAll \/ ShStop \/ ShExit

ShutdownNext ==
    \/ \E c \in ServerConns : ShAccept(c)
    \/ \E c \in ServerConns : ShRecv(c)
    \/ \E c \in ServerConns : ShHandlerStep(c)
    \/ ShSignal
    \/ ShMainStep

ShutdownSpec == ShutdownInit /\ [][ShutdownNext]_vars

\* C25: once the shutdown sequence (CloseAll, Stop) has completed, fs does
\* not accept connections, every file opened through the handle table is
\* closed and the table is empty, whatever fs.open requests were served or
\* accepted meanwhile.
ShutdownReleasesHandles ==
    pin.main = "return" =>
        /\ ~pin.listening
        /\ handles = NoFunction
        /\ pres.fds = {}

\* C26: a request whose handler was running when shutdown began runs to
\* completion and its response is written: the process does not end while
\* such a request is unanswered, and shutdown does not make it fail.
InFlightSurvivesShutdown ==
    \A c \in ServerConns :
        /\ ~conn[c].hurt
        /\ pin.main = "exited" => ~conn[c].atShutdown

\* C27: no file open, file read or directory read is performed while the
\* handler holds the handle-table lock (which also guards the revocation
\* set) or the rate-limiter mutex.
NoFileIOUnderLock ==
    \A c \in ServerConns : conn[c].pc = "io" => Holds(c) = {}

\* A handler is about to read a file while another holds the table's lock.
NoFileIOUnderLockReached ==
    \E c, d \in ServerConns :
        /\ c # d
        /\ conn[c].pc = "io"
        /\ conn[c].req.Method = M_fs_read
        /\ Holds(d) # {}

(***************************************************************************)
(* The order of Authorize's decisions, checked under PolicySpec.           *)
(***************************************************************************)
\* The method has no '.'.
NoDot(method) == \A i \in 1..Len(method) : method[i] # "."

\* The text before and after the first '.' of a method that has one.
FirstDot(method) ==
    CHOOSE i \in 1..Len(method) :
        method[i] = "." /\ \A j \in 1..(i - 1) : method[j] # "."
MethodService(method) == SubSeq(method, 1, FirstDot(method) - 1)
MethodAction(method) == SubSeq(method, FirstDot(method) + 1, Len(method))

\* The steps that fail on the pinned call, in the order of the claim: 1 nil
\* claims, 2 method without '.', 3 service mismatch, 4 no matching right or
\* action, 5 path_prefix violation.
FailingSteps ==
    (IF pin.claims = NilClaims THEN {1} ELSE {})
    \cup (IF NoDot(pin.method) THEN {2} ELSE {})
    \cup (IF pin.claims # NilClaims /\ ~NoDot(pin.method)
             /\ pin.claims.Service # MethodService(pin.method) THEN {3} ELSE {})
    \cup (IF pin.claims # NilClaims /\ ~NoDot(pin.method)
             /\ (\A i \in 1..Len(pin.claims.Rights) : pin.claims.Rights[i] # pin.method)
             /\ (\A i \in 1..Len(pin.claims.Actions) :
                     pin.claims.Actions[i] # MethodAction(pin.method)) THEN {4} ELSE {})
    \cup (IF pin.claims # NilClaims
             /\ enforcePathPrefix(pin.claims.Constraints.PathPrefix, pin.ctx, cwd) # NoError
          THEN {5} ELSE {})

\* The lowest of a set of steps that is not empty.
First(steps) == CHOOSE i \in steps : \A j \in steps : i <= j

\* The code and the messages with which step i answers.
StepCode(i) == IF i = 1 THEN CodeUnauthenticated ELSE CodePermissionDenied
StepMessages(i) ==
    CASE i = 1 -> {"token required"}
      [] i = 2 -> {"invalid method format"}
      [] i = 3 -> {"token not valid for service"}
      [] i = 4 -> {"method not permitted"}
      [] i = 5 -> {"path traversal not allowed", "path outside allowed prefix"}

\* C28: Authorize returns the error of the first failing step in the order
\* nil claims (Unauthenticated), method without a '.', service mismatch, no
\* matching right or action, path_prefix violation (all PermissionDenied),
\* empty rate bucket (ResourceExhausted); a token with service S used on a
\* method whose prefix differs from S gets PermissionDenied.
DecisionOrder ==
    pres.called =>
        /\ FailingSteps # {} =>
              /\ pres.err.Code = StepCode(First(FailingSteps))
              /\ pres.err.Message \in StepMessages(First(FailingSteps))
              /\ buckets = pres.before
        /\ FailingSteps = {} =>
              /\ pres.err.Code \in {0, CodeResourceExhausted}
              /\ pres.err.Code = CodeResourceExhausted =>
                    /\ pres.err.Message = "rate limit exceeded"
                    /\ pin.claims.ID \in DOMAIN buckets
                    /\ buckets[pin.claims.ID].tokens < OneToken
        /\ (pin.claims # NilClaims /\ 3 \in FailingSteps) =>
              pres.err.Code = CodePermissionDenied

\* A call on which the service, the rights and the path all fail is answered
\* for the service.
DecisionOrderReached ==
    /\ pres.called
    /\ {3, 4, 5} \subseteq FailingSteps
    /\ First(FailingSteps) = 3
    /\ pres.err.Message = "token not valid for service"

\* The rate limit answers last: every other step passed and the bucket is empty.
RateLimitAnswersLast ==
    /\ pres.called
    /\ FailingSteps = {}
    /\ pres.err.Code = CodeResourceExhausted

(***************************************************************************)
(* The order of the checks of fs.read, checked under Spec.                 *)
(***************************************************************************)
\* The handler answered cn before it consulted the revoked set or read.
BeforeRevocation(cn) == ~cn.checked /\ ~cn.io

\* From the handle lookup on: unknown handle, binding, revocation, read.
ReadOrderFromLookup(cn, claims, handle) ==
    IF handle = << >>
    THEN cn.resp.Error.Code = ErrInvalidRequest /\ BeforeRevocation(cn)
    ELSE IF handle \notin DOMAIN handles
    THEN cn.resp.Error.Code = ErrNotFound /\ BeforeRevocation(cn)
    ELSE IF handles[handle].capID # claims.ID
    THEN /\ cn.resp.Error.Code = ErrPermDenied
         /\ cn.resp.Error.Message = "handle not bound to this capability"
         /\ BeforeRevocation(cn)
    ELSE /\ cn.checked
         /\ IF cn.revAtChk
            THEN /\ cn.resp.Error.Code = ErrPermDenied
                 /\ cn.resp.Error.Message = "capability revoked"
                 /\ ~cn.io
            ELSE cn.io

\* From Authorize("fs.read", nil) on; a is what it returns.
ReadOrderFromAuthorize(cn, claims, a) ==
    IF a.err # NoError
    THEN /\ cn.resp = policyError(cn.req.ReqID, a.err)
         /\ ~cn.authorized
         /\ BeforeRevocation(cn)
    ELSE /\ ParamString(cn.req, "handle") # << >> => cn.authorized
         /\ ReadOrderFromLookup(cn, claims, ParamString(cn.req, "handle"))

\* From token verification on; ec is what extractClaims returns.
ReadOrderFromVerify(cn, ec) ==
    IF ec.resp # NilValue
    THEN cn.resp = ec.resp /\ ~cn.authorized /\ BeforeRevocation(cn)
    ELSE ReadOrderFromAuthorize(cn, ec.claims,
             Authorize(ec.claims, M_fs_read, NilCtx, cn.bksAtAuth, cn.tAuth, cwd))

\* C29: fs.read checks in the order token verification, Authorize("fs.read")
\* without path context, handle lookup, binding of the entry to the token's
\* capability, revocation, read: an unknown handle is answered NotFound (4)
\* and a handle of another capability PermissionDenied for binding, both
\* before the revoked set is consulted.
ReadCheckOrder ==
    \A c \in Conns :
        (Done(c) /\ conn[c].req.V = 1 /\ conn[c].req.Method = M_fs_read)
            => ReadOrderFromVerify(conn[c], extractClaims(conn[c].req, pubKey, conn[c].tAuth))

\* A handle of another capability read under a revoked capability is
\* answered for the binding.
ReadCheckOrderReached ==
    \E c \in Conns :
        /\ Done(c)
        /\ conn[c].req.Method = M_fs_read
        /\ conn[c].authorized
        /\ ParamString(conn[c].req, "handle") \in DOMAIN handles
        /\ handles[ParamString(conn[c].req, "handle")].capID # conn[c].claims.ID
        /\ conn[c].claims.ID \in revoked
        /\ conn[c].revAtStart
        /\ conn[c].resp.Error.Message = "handle not bound to this capability"
        /\ BeforeRevocation(conn[c])

\* An unknown handle read under a revoked capability is answered NotFound.
UnknownHandleBeforeRevocation ==
    \E c \in Conns :
        /\ Done(c)
        /\ conn[c].req.Method = M_fs_read
        /\ conn[c].authorized
        /\ conn[c].revAtStart
        /\ conn[c].resp.Error.Code = ErrNotFound
        /\ BeforeRevocation(conn[c])

(***************************************************************************)
(* A delivered notification, checked under RevokeSpec.                     *)
(***************************************************************************)
\* identity.revoke(k) has returned after fs answered its notification.
DeliveredReturned(k) == burst[k] > 0

\* C30: when fs answers the notification, then from the moment
\* identity.revoke(C) returns, C is in fs's revoked set, and an fs request
\* under C that starts after that is denied: it opens no handle.
DeliveredIsSynchronous ==
    [][ /\ \A k \in DOMAIN burst : DeliveredReturned(k)' => k \in revoked'
        /\ \A h \in (DOMAIN handles') \ (DOMAIN handles) :
              ~DeliveredReturned(handles'[h].capID) ]_vars

\* identity.revoke returned after an answered notification for a
\* capability that had opened a file before.
DeliveredIsSynchronousReached ==
    \E k \in DOMAIN burst :
        /\ DeliveredReturned(k)
        /\ k \in revoked
        /\ k \in revocations
        /\ \E h \in DOMAIN handles : handles[h].capID = k
        /\ nextID < MaxOpens

(***************************************************************************)
(* The rate limiter under concurrent callers (internal/policy/             *)
(* constraints.go:100-135): goroutines run enforceRateLimit statement by   *)
(* statement, sharing globalLimiter.buckets under globalLimiter.mu, while  *)
(* the clock advances.                                                     *)
(***************************************************************************)
\* Calls of enforceRateLimit made in a run.
MaxLimiterCalls == 3

\* The clock of this harness runs from 0 to MaxLimiterSeconds.
MaxLimiterSeconds == 1

Goroutines == {"g1", "g2"}

LimiterIds == {"cA", "cB"}

\* The rate_limit of a capability: none, one or two calls a second.
LimiterRates == { << >>, RpsString(1), RpsString(2) }

\* A goroutine outside enforceRateLimit.
LmIdle ==
    [pc |-> "idle", capID |-> "", rate |-> 0, t |-> 0, seen |-> 0,
     err |-> NoError, snap |-> NoBuckets, within |-> FALSE]

\* What the bucket of capability k holds at time t: its tokens after the
\* refill up to t, and a full bucket when none has been created yet.
Held(bks, k, rateLimit, t) ==
    IF ~parseRate(rateLimit).ok THEN 0
    ELSE IF k \in DOMAIN bks THEN Refill(bks[k], t).tokens
    ELSE NewBucket(parseRate(rateLimit).rate, t).tokens

\* The observer at the start of an interval without clock advance.
IntervalStart(bks, t) ==
    [k \in LimiterIds |-> [held |-> Held(bks, k, pin[k], t), served |-> 0]]

LimiterInit ==
    /\ now = 0
    /\ cwd = P_root
    /\ buckets = NoBuckets
    /\ pin \in [LimiterIds -> LimiterRates]
    /\ pres = [mu |-> ""]
    /\ burst = [k \in LimiterIds |->
                   [held |-> Held(NoBuckets, k, pin[k], 0), served |-> 0]]
    /\ issued = NoFunction
    /\ revocations = {}
    /\ handles = NoFunction
    /\ revoked = {}
    /\ nextID = 0
    /\ conn = [g \in Goroutines |-> LmIdle]
    /\ nreq = 0

\* enforceRateLimit(capID, rateLimit) is called; lines 101-107 return nil
\* for an empty or unparseable rate_limit.
LmCall(g) ==
    /\ conn[g].pc = "idle"
    /\ nreq < MaxLimiterCalls
    /\ nreq' = nreq + 1
    /\ \E k \in LimiterIds :
          conn' = [conn EXCEPT ![g] =
              IF pin[k] = << >> \/ ~parseRate(pin[k]).ok
              THEN [LmIdle EXCEPT !.pc = "done", !.capID = k, !.within = TRUE]
              ELSE [LmIdle EXCEPT !.pc = "lock", !.capID = k, !.within = TRUE,
                                  !.rate = parseRate(pin[k]).rate]]
    /\ UNCHANGED << limVars, polVars, issued, revocations, handles, revoked, nextID >>

\* A variant that enters without waiting for the mutex.
LmLock_noMutex(g) ==
    /\ conn[g].pc = "lock"
    /\ pres' = [pres EXCEPT !.mu = g]
    /\ conn' = [conn EXCEPT ![g].pc = "lookup", ![g].snap = buckets]
    /\ UNCHANGED << limVars, pin, burst, issued, revocations, handles, revoked,
                    nextID, nreq >>

\* globalLimiter.mu.Lock()
LmLock(g) ==
    /\ conn[g].pc = "lock"
    /\ pres.mu = ""
    /\ pres' = [pres EXCEPT !.mu = g]
    /\ conn' = [conn EXCEPT ![g].pc = "lookup", ![g].snap = buckets]
    /\ UNCHANGED << limVars, pin, burst, issued, revocations, handles, revoked,
                    nextID, nreq >>

\* b, exists := globalLimiter.buckets[capID]; a new bucket when there is none.
LmLookup(g) ==
    /\ conn[g].pc = "lookup"
    /\ buckets' = IF conn[g].capID \in DOMAIN buckets THEN buckets
                  ELSE PutBucket(buckets, conn[g].capID, NewBucket(conn[g].rate, now))
    /\ conn' = [conn EXCEPT ![g].pc = "refill"]
    /\ UNCHANGED << now, cwd, polVars, issued, revocations, handles, revoked,
                    nextID, nreq >>

\* now := time.Now(); the refill, its cap, b.last = now.
LmRefill(g) ==
    /\ conn[g].pc = "refill"
    /\ buckets' = [buckets EXCEPT ![conn[g].capID] = Refill(@, now)]
    /\ conn' = [conn EXCEPT ![g].pc = "check", ![g].t = now]
    /\ UNCHANGED << now, cwd, polVars, issued, revocations, handles, revoked,
                    nextID, nreq >>

\* if b.tokens < 1: the error; otherwise b.tokens is read for the decrement.
LmCheck(g) ==
    /\ conn[g].pc = "check"
    /\ conn' = [conn EXCEPT ![g] =
           IF FLess(buckets[conn[g].capID].tokens, OneToken)
           THEN [@ EXCEPT !.pc = "unlock",
                          !.err = PolicyError(CodeResourceExhausted,
                                      "RESOURCE_EXHAUSTED", "rate limit exceeded")]
           ELSE [@ EXCEPT !.pc = "take", !.seen = buckets[conn[g].capID].tokens]]
    /\ UNCHANGED << limVars, polVars, issued, revocations, handles, revoked,
                    nextID, nreq >>

\* b.tokens-- stores the decremented value; the call will return nil.
LmTake(g) ==
    /\ conn[g].pc = "take"
    /\ buckets' = [buckets EXCEPT ![conn[g].capID].tokens =
                       FAdd(conn[g].seen, 0 - OneToken)]
    /\ burst' = [burst EXCEPT ![conn[g].capID].served =
                     IF conn[g].within THEN @ + 1 ELSE @]
    /\ conn' = [conn EXCEPT ![g].pc = "unlock"]
    /\ UNCHANGED << now, cwd, pin, pres, issued, revocations, handles, revoked,
                    nextID, nreq >>

\* The deferred globalLimiter.mu.Unlock().
LmUnlock(g) ==
    /\ conn[g].pc = "unlock"
    /\ pres' = [pres EXCEPT !.mu = IF @ = g THEN "" ELSE @]
    /\ conn' = [conn EXCEPT ![g].pc = "done"]
    /\ UNCHANGED << limVars, pin, burst, issued, revocations, handles, revoked,
                    nextID, nreq >>

\* enforceRateLimit returns to its caller.
LmReturn(g) ==
    /\ conn[g].pc = "done"
    /\ conn' = [conn EXCEPT ![g] = LmIdle]
    /\ UNCHANGED << limVars, polVars, issued, revocations, handles, revoked,
                    nextID, nreq >>

\* Half a second passes.  The calls under way are no longer calls made
\* within one interval of the clock.
LmTick ==
    /\ now + TicksPerSec \div 2 <= MaxLimiterSeconds * TicksPerSec
    /\ now' = now + TicksPerSec \div 2
    /\ burst' = IntervalStart(buckets, now + TicksPerSec \div 2)
    /\ conn' = [g \in Goroutines |-> [conn[g] EXCEPT !.within = FALSE]]
    /\ UNCHANGED << cwd, buckets, pin, pres, issued, revocations, handles,
                    revoked, nextID, nreq >>

LimiterNext ==
    \/ \E g \in Goroutines : LmCall(g)
    \/ \E g \in Goroutines : LmLock(g)
    \/ \E g \in Goroutines : LmLookup(g)
    \/ \E g \in Goroutines : LmRefill(g)
    \/ \E g \in Goroutines : LmCheck(g)
    \/ \E g \in Goroutines : LmTake(g)
    \/ \E g \in Goroutines : LmUnlock(g)
    \/ \E g \in Goroutines : LmReturn(g)
    \/ LmTick

LimiterSpec == LimiterInit /\ [][LimiterNext]_vars

\* The call of goroutine g as one step: enforceRateLimit applied to the map
\* the goroutine found when it took the mutex, at the time it read.
Sequential(g) ==
    enforceRateLimit(conn[g].capID, pin[conn[g].capID], conn[g].snap, conn[g].t)

\* C31: concurrent calls of the rate limiter behave as the calls made one
\* after the other in the order the mutex was taken: when a call is about
\* to release the mutex the map is what the call alone would have made of
\* the map it found, and its answer is that of the call alone, so no update
\* is lost; and between two advances of the clock the calls that succeeded
\* under a capability, counting the calls made from start to end within
\* the interval, number at most the whole tokens its bucket held when the
\* interval began.
LinearizedConsumption ==
    /\ \A g \in Goroutines :
          conn[g].pc = "unlock" =>
              /\ buckets = Sequential(g).buckets
              /\ conn[g].err = Sequential(g).err
    /\ \A k \in LimiterIds :
          parseRate(pin[k]).ok => burst[k].served * OneToken <= burst[k].held

\* C31 witness: under "1rps" one goroutine took the only token and is about
\* to release the mutex while the other, having called for the same
\* capability, waits for it; the clock has advanced before.
LinearizedConsumptionReached ==
    /\ pin["cA"] = RpsString(1)
    /\ conn["g1"].pc = "unlock"
    /\ conn["g1"].capID = "cA"
    /\ conn["g1"].err = NoError
    /\ conn["g2"].pc = "lock"
    /\ conn["g2"].capID = "cA"
    /\ buckets["cA"].tokens = 0
    /\ burst["cA"].served = 1
    /\ now > 0

\* A call that waited for the mutex was answered RESOURCE_EXHAUSTED because
\* the call before it had taken the last token.
LoserRefused ==
    \E g \in Goroutines :
        /\ conn[g].pc = "unlock"
        /\ conn[g].err.Code = CodeResourceExhausted
        /\ conn[g].snap # NoBuckets
        /\ conn[g].capID \in DOMAIN conn[g].snap
        /\ conn[g].snap[conn[g].capID].last = conn[g].t

(***************************************************************************)
(* Frame conditions of the rate limiter, checked under PolicySpec, where   *)
(* the calls are made under capability "c1" next to the exhausted bucket   *)
(* of another capability "c0".                                             *)
(***************************************************************************)
\* The capability ids other than that of the caller.
OtherIds(bks, bksAfter) ==
    { k \in (DOMAIN bks) \cup (DOMAIN bksAfter) :
        pin.claims = NilClaims \/ k # pin.claims.ID }

\* C32: a call of Authorize under capability A neither creates nor changes
\* the bucket of another capability B, and a call is answered
\* ResourceExhausted only when the bucket of its own capability, refilled
\* to the time of the call, holds less than one token.
PerCapabilityBuckets ==
    [][ now' = now =>
          /\ \A k \in OtherIds(buckets, buckets') :
                /\ k \in DOMAIN buckets
                /\ k \in DOMAIN buckets'
                /\ buckets'[k] = buckets[k]
          /\ (pres'.called /\ pres'.err.Code = CodeResourceExhausted)
                => /\ pin.claims # NilClaims
                   /\ Held(buckets, pin.claims.ID, pin.claims.Constraints.RateLimit,
                           now) < OneToken ]_vars

\* C32 witness: with the bucket of "c0" empty since time 0 and the clock
\* advanced, a call under "c1" was answered nil from a bucket of its own and
\* left the bucket of "c0" as it was.
PerCapabilityBucketsReached ==
    /\ pres.called
    /\ pres.err = NoError
    /\ now > 0
    /\ "c0" \in DOMAIN pres.before
    /\ pres.before["c0"].tokens < OneToken
    /\ "c1" \notin DOMAIN pres.before
    /\ "c1" \in DOMAIN buckets
    /\ buckets["c0"] = pres.before["c0"]

\* The messages of the denials that come before the rate-limit step.
EarlierDenials == UNION { StepMessages(i) : i \in 1..5 }

\* C33: a call of Authorize denied for nil claims, a malformed method, the
\* wrong service, a missing right or action, or a path_prefix violation
\* leaves the rate limiter's map as it was: no bucket is created, and no
\* bucket's tokens or last-refill time change.
EarlierDenialKeepsBuckets ==
    [][ (now' = now /\ pres'.called /\ pres'.err.Message \in EarlierDenials)
            => /\ DOMAIN buckets' = DOMAIN buckets
               /\ \A k \in DOMAIN buckets :
                     /\ buckets'[k].tokens = buckets[k].tokens
                     /\ buckets'[k].last = buckets[k].last ]_vars

\* C33 witness: a capability limited to one call a second was denied for
\* its path after the clock had advanced, and has no bucket; the bucket of
\* "c0" still carries time 0.
EarlierDenialKeepsBucketsReached ==
    /\ pres.called
    /\ pres.err.Message = "path outside allowed prefix"
    /\ pin.claims.Constraints.RateLimit = RpsString(1)
    /\ FailingSteps = {5}
    /\ now > 0
    /\ DOMAIN buckets = {"c0"}
    /\ buckets["c0"].last = 0

(***************************************************************************)
(* The rate limiter over the rate_limit strings a capability can carry     *)
(* (identity.issue copies the string of the request into the capability,   *)
(* src/unnamed/part_007:467-477): calls of enforceRateLimit for one        *)
(* capability, the clock advancing a tick at a time.                       *)
(***************************************************************************)
\* The clock of this harness runs from 0 to MaxRateSeconds.
MaxRateSeconds == 1

RateStrings ==
    { << >>,
      << "5", "0", "r", "p", "m" >>,
      << "a", "b", "c" >>,
      S_rps,
      << "0" >> \o S_rps,
      << "-", "1" >> \o S_rps,
      << "n", "a", "n" >> \o S_rps,
      << "N", "a", "N" >> \o S_rps,
      RpsString(1),
      << "2", ".", "5" >> \o S_rps,
      << " " >> \o RpsString(2) \o << " " >> }

RateInit ==
    /\ now = 0
    /\ cwd = P_root
    /\ buckets = NoBuckets
    /\ pin \in [capID : {"c1"}, rateLimit : RateStrings]
    /\ pres = NoResult
    /\ burst = [k \in PolicyIds |-> 0]
    /\ SvcIdle

\* One call enforceRateLimit(capID, rateLimit).
RateCall ==
    /\ buckets' = enforceRateLimit(pin.capID, pin.rateLimit, buckets, now).buckets
    /\ pres' = [called |-> TRUE,
                err |-> enforceRateLimit(pin.capID, pin.rateLimit, buckets, now).err,
                before |-> buckets, t |-> now]
    /\ UNCHANGED << now, cwd, pin, burst, svcVars >>

\* A tick passes.
RateTick ==
    /\ now < MaxRateSeconds * TicksPerSec
    /\ now' = now + 1
    /\ UNCHANGED << cwd, buckets, pin, pres, burst, svcVars >>

RateNext == RateCall \/ RateTick

RateSpec == RateInit /\ [][RateNext]_vars

\* str is "<positive number>rps": after the surrounding white space is
\* dropped it ends in "rps", and what precedes is a decimal numeral (digits
\* with at most one point, possibly after a '+') with a digit other than 0.
PositiveRps(str) ==
    LET s == TrimSpace(str)
        num == SubSeq(s, 1, Len(s) - 3)
        unsigned == IF num # << >> /\ Head(num) = "+" THEN Tail(num) ELSE num
    IN  /\ Len(s) > 3
        /\ SubSeq(s, Len(s) - 2, Len(s)) = << "r", "p", "s" >>
        /\ \A i \in 1..Len(unsigned) : IsDigit(unsigned[i]) \/ unsigned[i] = "."
        /\ Cardinality({ i \in 1..Len(unsigned) : unsigned[i] = "." }) <= 1
        /\ \E i \in 1..Len(unsigned) : IsDigit(unsigned[i]) /\ unsigned[i] # "0"

\* C34: with an empty rate_limit, or one that is not "<positive number>rps",
\* every call of the rate-limit step returns nil and no bucket is created.
FailOpenParsing ==
    (pres.called /\ ~PositiveRps(pin.rateLimit))
        => /\ pres.err = NoError
           /\ buckets = NoBuckets

\* What holds of the strings that are not "<positive number>rps": the step
\* returns nil on every call.
FailOpenAnswers ==
    (pres.called /\ ~PositiveRps(pin.rateLimit)) => pres.err = NoError

\* The strings of the claim ('50rpm', 'abc', '0rps', '-1rps', the empty
\* one) create no bucket.
FailOpenExamples ==
    (pres.called /\ ~PositiveRps(pin.rateLimit)
       /\ ~IsNaNText(TrimSuffix(TrimSpace(pin.rateLimit), S_rps)))
        => buckets = NoBuckets

\* C40: every bucket holds between 0 and rate tokens.
BucketBounds ==
    \A k \in DOMAIN buckets :
        /\ FLeq(0, buckets[k].tokens)
        /\ FLeq(buckets[k].tokens, FMul(buckets[k].rate, TicksPerSec))

\* The bounds hold of every bucket whose rate is a number.
NumericBucketBounds ==
    \A k \in DOMAIN buckets :
        buckets[k].rate # NaN =>
            /\ FLeq(0, buckets[k].tokens)
            /\ FLeq(buckets[k].tokens, FMul(buckets[k].rate, TicksPerSec))

\* The rate of a bucket never changes, its last-refill time never
\* decreases, no bucket is removed, and a call answered ResourceExhausted
\* leaves the tokens at their refilled value.
BucketSteps ==
    [][ \A k \in DOMAIN buckets :
          /\ k \in DOMAIN buckets'
          /\ buckets'[k].rate = buckets[k].rate
          /\ buckets'[k].last >= buckets[k].last
          /\ (pres' # pres /\ pres'.err.Code = CodeResourceExhausted)
                => buckets'[k].tokens = Refill(buckets[k], now).tokens ]_vars

(***************************************************************************)
(* The fs.revoke endpoint alone (cmd/fs/main.go:267-276): requests sent to *)
(* fs.sock by identity or by any other process that can connect.           *)
(***************************************************************************)
\* Who wrote the request; handleConn hands the handler the request only.
NotifyCallers == {"identity", "client"}

\* No token, a token identity issued, one signed by another key, and a
\* string that is no token.
NotifyTokens == {NoToken, ShutdownToken, Resign(ShutdownToken), TooShort}

\* cap_id of an issued capability, of another, of none; empty; missing.
NotifyParams ==
    { [k \in {"cap_id"} |-> id] : id \in { << "c", "1" >>, << "c", "2" >>, << "z" >>, << >> } }
    \cup { NoParams, PathParams(P_tmp) }

NotifyRequests ==
    { Request(M_fs_revoke, t, pp) : t \in NotifyTokens, pp \in NotifyParams }

NotifyInit ==
    /\ now = 0
    /\ cwd = P_root
    /\ buckets = NoBuckets
    /\ pin = NilValue
    /\ pres = NoResult
    /\ burst = [k \in PolicyIds |-> 0]
    /\ issued = [k \in {"c1"} |-> ShutdownToken]
    /\ revocations = {}
    /\ handles = NoFunction
    /\ revoked = {}
    /\ nextID = 0
    /\ conn = [c \in Conns |-> IdleConn]
    /\ nreq = 0

\* handleConn answers one fs.revoke request.
NotifyCall ==
    \E who \in NotifyCallers, req \in NotifyRequests :
        /\ revoked' = Dispatch(req, revoked, buckets, now, cwd).revoked
        /\ pres' = [called |-> TRUE, caller |-> who, req |-> req, before |-> revoked,
                    resp |-> Dispatch(req, revoked, buckets, now, cwd).resp]
        /\ UNCHANGED << limVars, pin, burst, issued, revocations, handles,
                        nextID, conn, nreq >>

NotifySpec == NotifyInit /\ [][NotifyCall]_vars

\* C35: fs.revoke authenticates no caller: a request with a cap_id that is
\* not empty, with or without a token and whoever sent it, adds the id to
\* fs's revoked set and is answered {status: "revoked"}; one whose cap_id
\* is empty or missing is answered InvalidArgument (1) and leaves the set
\* as it was.
RevokeUnauthenticated ==
    pres.called =>
        IF ParamString(pres.req, "cap_id") # << >>
        THEN /\ pres.resp.OK
             /\ pres.resp.Result = [status |-> "revoked"]
             /\ revoked = pres.before \cup {Text(ParamString(pres.req, "cap_id"))}
        ELSE /\ ~pres.resp.OK
             /\ pres.resp.Error.Code = ErrInvalidRequest
             /\ revoked = pres.before

\* C35 witness: a client that presents no token has revoked the issued
\* capability c1, after a request without cap_id had been refused.
RevokeUnauthenticatedReached ==
    /\ pres.called
    /\ pres.caller = "client"
    /\ pres.req.Token = NoToken
    /\ pres.resp.OK
    /\ "c1" \in revoked
    /\ "c1" \notin pres.before
    /\ "c1" \in DOMAIN issued
    /\ "z" \in pres.before

(***************************************************************************)
(* Startup (cmd/supervisor/main.go:20-56, identity's main, fs's main up to *)
(* srv.Start): three processes and the files of the runtime directory.     *)
(***************************************************************************)
\* The key pair the identity instance of an earlier run had generated.
PreviousKey == "previous-key"

\* fs tries to load the public key this many times (for i := 0; i < 50).
LoadTries == 50

\* identity.pub: missing, created and not yet written, or holding a key.
NoFile == [exists |-> FALSE]
EmptyFile == [exists |-> TRUE, data |-> << >>]

\* WritePublicKey's content: the base64 (StdEncoding) text of the key.
PublicKeyFile(k) == [exists |-> TRUE, data |-> << [std64 |-> PublicHalf(k)] >>]

\* LoadPublicKey: os.ReadFile, the decoding, the size check.
LoadPublicKey(file) ==
    IF ~file.exists THEN [err |-> "read public key", key |-> NilValue]
    ELSE IF file.data = << >> THEN [err |-> "invalid public key size", key |-> NilValue]
    ELSE [err |-> "", key |-> file.data[1].std64]

\* The runtime directory as earlier runs can leave it: empty; identity.pub
\* alone (Stop removes the socket, nothing removes the key); both files,
\* when identity ended without running Stop.
LeftBehind ==
    { [sock |-> "absent", pub |-> NoFile, fsSock |-> FALSE, leftSock |-> FALSE],
      [sock |-> "absent", pub |-> PublicKeyFile(PreviousKey), fsSock |-> FALSE,
       leftSock |-> FALSE],
      [sock |-> "stale", pub |-> PublicKeyFile(PreviousKey), fsSock |-> FALSE,
       leftSock |-> TRUE] }

NotStarted == [pc |-> "none", key |-> NilValue, tries |-> 0]

StartupInit ==
    /\ now = 0
    /\ cwd = P_root
    /\ buckets = NoBuckets
    /\ pin = "start"
    /\ pres \in LeftBehind
    /\ burst = [k \in PolicyIds |-> 0]
    /\ issued = NoFunction
    /\ revocations = {}
    /\ handles = NoFunction
    /\ revoked = {}
    /\ nextID = 0
    /\ conn = [p \in {"identity", "fs"} |-> NotStarted]
    /\ nreq = 0

\* startService("identity", ...)
SupStartIdentity ==
    /\ pin = "start"
    /\ pin' = "waitIdentity"
    /\ conn' = [conn EXCEPT !["identity"].pc = "generate"]
    /\ UNCHANGED << limVars, pres, burst, svcVarsButConn >>

\* waitForFile(identitySock, 5s): os.Stat finds the file.
SupStatIdentity ==
    /\ pin = "waitIdentity"
    /\ pres.sock # "absent"
    /\ pin' = "startFs"
    /\ UNCHANGED << limVars, pres, burst, svcVars >>

\* startService("fs", ...)
SupStartFs ==
    /\ pin = "startFs"
    /\ pin' = "waitFs"
    /\ conn' = [conn EXCEPT !["fs"].pc = "load"]
    /\ UNCHANGED << limVars, pres, burst, svcVarsButConn >>

\* waitForFile(fsSock, 5s): os.Stat finds the file.
SupStatFs ==
    /\ pin = "waitFs"
    /\ pres.fsSock
    /\ pin' = "running"
    /\ UNCHANGED << limVars, pres, burst, svcVars >>

\* waitForFile gives up after its deadline: log.Fatalf.
SupTimeout ==
    /\ \/ pin = "waitIdentity" /\ pres.sock = "absent"
       \/ pin = "waitFs" /\ ~pres.fsSock
    /\ pin' = "failed"
    /\ UNCHANGED << limVars, pres, burst, svcVars >>

\* auth.GenerateKeyPair()
IdGenerate ==
    /\ conn["identity"].pc = "generate"
    /\ conn' = [conn EXCEPT !["identity"].pc = "create",
                            !["identity"].key = PublicHalf(IdentityKey)]
    /\ UNCHANGED << limVars, polVars, svcVarsButConn >>

\* os.WriteFile opens identity.pub with O_CREATE|O_TRUNC.
IdCreate ==
    /\ conn["identity"].pc = "create"
    /\ pres' = [pres EXCEPT !.pub = EmptyFile]
    /\ conn' = [conn EXCEPT !["identity"].pc = "write"]
    /\ UNCHANGED << limVars, pin, burst, svcVarsButConn >>

\* os.WriteFile writes the encoded key.
IdWrite ==
    /\ conn["identity"].pc = "write"
    /\ pres' = [pres EXCEPT !.pub = PublicKeyFile(IdentityKey)]
    /\ conn' = [conn EXCEPT !["identity"].pc = "remove"]
    /\ UNCHANGED << limVars, pin, burst, svcVarsButConn >>

\* srv.Start(): os.Remove(s.socketPath)
IdRemove ==
    /\ conn["identity"].pc = "remove"
    /\ pres' = [pres EXCEPT !.sock = "absent"]
    /\ conn' = [conn EXCEPT !["identity"].pc = "listen"]
    /\ UNCHANGED << limVars, pin, burst, svcVarsButConn >>

\* srv.Start(): net.Listen("unix", s.socketPath)
IdListen ==
    /\ conn["identity"].pc = "listen"
    /\ pres' = [pres EXCEPT !.sock = "live"]
    /\ conn' = [conn EXCEPT !["identity"].pc = "ready"]
    /\ UNCHANGED << limVars, pin, burst, svcVarsButConn >>

\* One round of fs's loop: LoadPublicKey, and on an error the sleep; after
\* the last round without a key, log.Fatalf.
FsLoad ==
    /\ conn["fs"].pc = "load"
    /\ conn' = [conn EXCEPT !["fs"] =
           IF LoadPublicKey(pres.pub).err = ""
           THEN [@ EXCEPT !.pc = "start", !.key = LoadPublicKey(pres.pub).key]
           ELSE IF @.tries + 1 = LoadTries
           THEN [@ EXCEPT !.pc = "failed", !.tries = @ + 1]
           ELSE [@ EXCEPT !.tries = @ + 1]]
    /\ UNCHANGED << limVars, polVars, svcVarsButConn >>

\* fs: srv.Start()
FsStart ==
    /\ conn["fs"].pc = "start"
    /\ pres' = [pres EXCEPT !.fsSock = TRUE]
    /\ conn' = [conn EXCEPT !["fs"].pc = "ready"]
    /\ UNCHANGED << limVars, pin, burst, svcVarsButConn >>

StartupNext ==
    \/ SupStartIdentity
    \/ SupStatIdentity
    \/ SupStartFs
    \/ SupStatFs
    \/ SupTimeout
    \/ IdGenerate
    \/ IdCreate
    \/ IdWrite
    \/ IdRemove
    \/ IdListen
    \/ FsLoad
    \/ FsStart

StartupSpec == StartupInit /\ [][StartupNext]_vars

\* The running identity instance has written its public key.
Published == conn["identity"].pc \in {"remove", "listen", "ready"}

\* fs has loaded its verification key.
Loaded == conn["fs"].pc \in {"start", "ready"}

\* C36: the supervisor starts fs only after the running identity instance
\* has published its public key, and the key fs loads is the key of that
\* instance, whatever an earlier run left in the runtime directory.
StartupOrder ==
    /\ conn["fs"].pc # "none" => Published
    /\ Loaded => conn["fs"].key = conn["identity"].key

\* The same when no identity.sock was left behind.
StartupOrderWithoutStaleSocket ==
    ~pres.leftSock =>
        /\ conn["fs"].pc # "none" => Published
        /\ Loaded => conn["fs"].key = conn["identity"].key

\* Both services are up, the supervisor reports them running, and fs
\* verifies with the key of the earlier run: it refuses every token the
\* running identity signs.
StaleKeyServed ==
    /\ pin = "running"
    /\ conn["identity"].pc = "ready"
    /\ conn["fs"].pc = "ready"
    /\ conn["fs"].key = PublicHalf(PreviousKey)
    /\ Verify(Sign(TokenClaims(ShutdownToken), PrivateHalf(IdentityKey)),
              conn["fs"].key).err # ""

(***************************************************************************)
(* Handle ids (handleTable.Open, cmd/fs/main.go:49-65), checked under      *)
(* ShutdownSpec: opens on two connections, next to CloseAll.               *)
(***************************************************************************)
\* The connections between nextID.Add(1) and the insertion of the entry,
\* and the counter values they drew.
Inserting == { c \in ServerConns : conn[c].pc \in {"insLock", "ins"} }
Drawn == { conn[c].file.fd : c \in Inserting }

\* The connections that draw a counter value in this step.
Drawing ==
    { c \in ServerConns : conn[c].pc = "io" /\ conn'[c].pc = "insLock" }

\* C37: each successful open gets "h" followed by the next value of a
\* counter that starts at 1 and only increases, so ids are distinct, also
\* between concurrent opens, and never used again, also after CloseAll; a
\* failed open draws no value and leaves the table as it is.
HandleIdsUnique ==
    [][ /\ nextID' \in {nextID, nextID + 1}
        /\ \A c \in Drawing :
              /\ nextID' = nextID + 1
              /\ conn'[c].file.fd = nextID + 1
              /\ nextID + 1 >= 1
        /\ nextID' = nextID + 1 => Cardinality(Drawing) = 1
        /\ \A h \in (DOMAIN handles') \ (DOMAIN handles) :
              \E c \in ServerConns :
                  /\ conn[c].pc = "ins"
                  /\ h = HandleId(conn[c].file.fd)
                  /\ conn[c].file.fd <= nextID
                  /\ \A d \in Inserting \ {c} : conn[d].file.fd # conn[c].file.fd
                  /\ DOMAIN handles' = (DOMAIN handles) \cup {h}
        /\ \A c \in ServerConns :
              (conn[c].pc = "io" /\ conn'[c].pc = "write"
                 /\ conn[c].req.Method = M_fs_open)
                  => /\ ~conn'[c].resp.OK
                     /\ nextID' = nextID
                     /\ handles' = handles
        /\ \A h \in DOMAIN handles :
              /\ h = HandleId(handles[h].file.fd)
              /\ handles[h].file.fd \in 1..nextID
              /\ handles[h].file.fd \notin Drawn ]_vars

\* C37 witness: an open drew 1 and stored h1, an open of a missing file
\* drew nothing, CloseAll emptied the table, and the open served after it
\* was given h2.
HandleIdsUniqueReached ==
    /\ pin.main \in {"stop", "return"}
    /\ nreq = 3
    /\ nextID = 2
    /\ DOMAIN handles = {HandleId(2)}
    /\ handles[HandleId(2)].file.fd = 2
    /\ pres.fds = {2}

\* Two opens under way at once hold different counter values, and a failed
\* open has been answered without one being drawn.
ConcurrentOpensDiffer ==
    /\ Inserting = ServerConns
    /\ Cardinality(Drawn) = 2
    /\ nreq = 3
    /\ nextID = 2

(***************************************************************************)
(* Revocation and the rate limit in fs.open, fs.list and fs.read, checked  *)
(* under Spec.                                                             *)
(***************************************************************************)
\* The request of cn came with a verified, unexpired token whose capability
\* carries a rate limit and was in fs's revoked set when the request was
\* read.
RevokedAndLimited(cn) ==
    /\ cn.claims # NilClaims
    /\ cn.revAtStart
    /\ parseRate(cn.claims.Constraints.RateLimit).ok

\* What the bucket of cn's capability held when Authorize was called.
HeldAtAuth(cn) ==
    Held(cn.bksAtAuth, cn.claims.ID, cn.claims.Constraints.RateLimit, cn.tAuth)

RevokedTookToken ==
    \E c \in Conns :
        /\ Done(c)
        /\ RevokedAndLimited(conn[c])
        /\ conn[c].resp.Error.Message = "capability revoked"
        /\ conn[c].claims.ID \notin DOMAIN conn[c].bksAtAuth
        /\ buckets[conn[c].claims.ID].tokens = 0

(***************************************************************************)
(* The handle table (cmd/fs/main.go:49-94, 150-218), checked under Spec.   *)
(***************************************************************************)
\* absPath is the directory named by prefix or lies below it.
WithinPrefix(absPath, prefix) ==
    \/ prefix = << >>
    \/ absPath = Abs(cwd, prefix)
    \/ UnderDir(absPath, Abs(cwd, prefix))

\* Entry e carries the id of a capability identity issued for fs with the
\* right (or legacy action) to open, and its path lies within that
\* capability's path_prefix.
AdmittedEntry(e) ==
    /\ e.capID \in DOMAIN issued
    /\ TokenClaims(issued[e.capID]).Service = S_fs
    /\ \/ InSeq(M_fs_open, TokenClaims(issued[e.capID]).Rights)
       \/ InSeq(S_open, TokenClaims(issued[e.capID]).Actions)
    /\ WithinPrefix(e.path, TokenClaims(issued[e.capID]).Constraints.PathPrefix)
    /\ e.file.path = e.path

\* The entries of the table are admitted ones, and a read answered ok:true
\* read the file of an entry that carries the reader's capability id and
\* lies within the reader's path_prefix.
EntriesAdmitted ==
    /\ \A h \in DOMAIN handles : AdmittedEntry(handles[h])
    /\ \A c \in Conns :
          (Done(c) /\ conn[c].resp.OK /\ conn[c].req.Method = M_fs_read)
              => /\ ParamString(conn[c].req, "handle") \in DOMAIN handles
                 /\ conn[c].entry = handles[ParamString(conn[c].req, "handle")]
                 /\ conn[c].entry.capID = conn[c].claims.ID
                 /\ WithinPrefix(conn[c].entry.path,
                                 conn[c].claims.Constraints.PathPrefix)
                 /\ conn[c].resp.Result = [data |-> conn[c].entry.path]

\* A step keeps every entry as it is, and an entry it adds comes from an
\* fs.open that passed Authorize and the revocation check, with the id of
\* its capability and the absolute form of its path.
EntriesCreatedByOpen ==
    /\ \A h \in DOMAIN handles :
          /\ h \in DOMAIN handles'
          /\ handles'[h] = handles[h]
    /\ \A h \in (DOMAIN handles') \ (DOMAIN handles) :
          \E c \in Conns :
              /\ conn[c].pc = "io"
              /\ conn[c].req.Method = M_fs_open
              /\ conn[c].authorized
              /\ conn[c].checked
              /\ ~conn[c].revAtChk
              /\ handles'[h].capID = conn[c].claims.ID
              /\ handles'[h].path = Abs(cwd, ParamString(conn[c].req, "path"))
              /\ PathPrefixPassed(conn[c].claims, conn[c].req)
              /\ conn'[c].resp.Result = [handle |-> h]

\* C39: every entry of the handle table was created by an fs.open that
\* passed Authorize and the revocation check, carries the id of that
\* capability and a path that satisfied its path_prefix; entries are not
\* modified and, while fs runs, not removed; so every successful fs.read
\* reads a file admitted under the reader's own path_prefix.
HandleTableInvariant == []EntriesAdmitted /\ [][EntriesCreatedByOpen]_vars

\* C39 witness: an fs.read was answered ok:true under a capability limited
\* to /tmp, from the entry its fs.open of /tmp/x had stored.
HandleTableInvariantReached ==
    \E c \in Conns :
        /\ Done(c)
        /\ conn[c].resp.OK
        /\ conn[c].req.Method = M_fs_read
        /\ conn[c].claims.Constraints.PathPrefix = P_tmp
        /\ conn[c].entry.path = P_tmp \o << "/", "x" >>
        /\ conn[c].entry.capID = conn[c].claims.ID

\* Under shutdown (ShutdownSpec): entries leave the table only in CloseAll.
RemovedOnlyByCloseAll ==
    [][ (\E h \in DOMAIN handles : h \notin DOMAIN handles')
            => (pin.main = "closeAll" /\ handles' = NoFunction) ]_vars

====
